---- MODULE Spec2Model ----
(***************************************************************************)
(* Verification model of the document-search chatbot backend               *)
(* (src/chatbot): query normalisation, the search strategies and their     *)
(* Reciprocal Rank Fusion combiner, the document comparator and the        *)
(* multi-turn chat session state machine.                                  *)
(*                                                                         *)
(* Python strings are TLA+ strings; a character is a string of length 1.   *)
(* Python floats are modelled as exact rationals scaled to integers (the   *)
(* scale of every score is stated where the score is defined).             *)
(***************************************************************************)
EXTENDS Integers, Sequences, FiniteSets, TLC

(***************************************************************************)
(* Python string primitives                                                *)
(***************************************************************************)

CharAt(s, i) == SubSeq(s, i, i)

\* The characters str.split(), str.strip() and the regex class \s treat as
\* white space (those that occur in the modelled inputs).
Whitespace == {" "}

UpperToLower ==
    [c \in {"A", "B", "C", "D", "E", "F", "G", "H", "I", "J", "K", "L", "M",
            "N", "O", "P", "Q", "R", "S", "T", "U", "V", "W", "X", "Y", "Z",
            "Á", "É", "Í", "Ó", "Ú", "Ñ", "Ü"} |->
        CASE c = "A" -> "a" [] c = "B" -> "b" [] c = "C" -> "c" [] c = "D" -> "d"
          [] c = "E" -> "e" [] c = "F" -> "f" [] c = "G" -> "g" [] c = "H" -> "h"
          [] c = "I" -> "i" [] c = "J" -> "j" [] c = "K" -> "k" [] c = "L" -> "l"
          [] c = "M" -> "m" [] c = "N" -> "n" [] c = "O" -> "o" [] c = "P" -> "p"
          [] c = "Q" -> "q" [] c = "R" -> "r" [] c = "S" -> "s" [] c = "T" -> "t"
          [] c = "U" -> "u" [] c = "V" -> "v" [] c = "W" -> "w" [] c = "X" -> "x"
          [] c = "Y" -> "y" [] c = "Z" -> "z" [] c = "Á" -> "á" [] c = "É" -> "é"
          [] c = "Í" -> "í" [] c = "Ó" -> "ó" [] c = "Ú" -> "ú" [] c = "Ñ" -> "ñ"
          [] c = "Ü" -> "ü"]

LowerChar(c) == IF c \in DOMAIN UpperToLower THEN UpperToLower[c] ELSE c

\* F applied to x: names a value that the body F uses more than once, so that
\* it is written (and evaluated) once where it is bound
Bind(x, F(_)) == F(x)

RECURSIVE MapChars(_, _)
\* Helper: apply a character map (a function on a set of characters, the
\* identity elsewhere) to every character of s.
MapChars(f, s) ==
    IF s = "" THEN ""
    ELSE (IF Head(s) \in DOMAIN f THEN f[Head(s)] ELSE Head(s)) \o MapChars(f, Tail(s))

\* str.lower()
Lower(s) == MapChars(UpperToLower, s)

RECURSIVE LStrip(_)
LStrip(s) == IF s # "" /\ Head(s) \in Whitespace THEN LStrip(Tail(s)) ELSE s

RECURSIVE RStrip(_)
RStrip(s) ==
    IF s # "" /\ CharAt(s, Len(s)) \in Whitespace
    THEN RStrip(SubSeq(s, 1, Len(s) - 1)) ELSE s

\* str.strip()
Strip(s) == RStrip(LStrip(s))

\* s.startswith(p) and s.endswith(p)
StartsWith(s, p) == Len(p) <= Len(s) /\ SubSeq(s, 1, Len(p)) = p
EndsWith(s, p) == Len(p) <= Len(s) /\ SubSeq(s, Len(s) - Len(p) + 1, Len(s)) = p

\* `sub in s` on strings
Contains(s, sub) ==
    \E i \in 1..(Len(s) - Len(sub) + 1) : SubSeq(s, i, i + Len(sub) - 1) = sub

RECURSIVE SplitFrom(_, _)
\* Helper of Split: the words of s, cur being the word read so far.
SplitFrom(s, cur) ==
    IF s = "" THEN (IF cur = "" THEN <<>> ELSE <<cur>>)
    ELSE IF Head(s) \in Whitespace
         THEN (IF cur = "" THEN <<>> ELSE <<cur>>) \o SplitFrom(Tail(s), "")
         ELSE SplitFrom(Tail(s), cur \o Head(s))

\* str.split() with no argument: the maximal runs of non-white-space.
Split(s) == SplitFrom(s, "")

RECURSIVE Join(_, _)
\* sep.join(words)
Join(sep, words) ==
    IF words = <<>> THEN ""
    ELSE IF Len(words) = 1 THEN words[1]
    ELSE words[1] \o sep \o Join(sep, Tail(words))

RECURSIVE Replace(_, _, _)
\* s.replace(old, new) for a non-empty old: every non-overlapping occurrence,
\* scanning left to right.
Replace(s, old, new) ==
    IF Len(s) < Len(old) THEN s
    ELSE IF SubSeq(s, 1, Len(old)) = old
         THEN new \o Replace(SubSeq(s, Len(old) + 1, Len(s)), old, new)
         ELSE Head(s) \o Replace(Tail(s), old, new)

\* set(seq)
SeqToSet(seq) == {seq[i] : i \in 1..Len(seq)}

RECURSIVE StringsUpTo(_, _)
\* Every string of at most n characters over the alphabet.
StringsUpTo(alphabet, n) ==
    IF n = 0 THEN {""}
    ELSE LET shorter == StringsUpTo(alphabet, n - 1)
         IN  shorter \cup {s \o c : s \in shorter, c \in alphabet}

(***************************************************************************)
(* Query normaliser: api_chatbot.normalize_query and                       *)
(* create_search_index.normalize_text                                      *)
(***************************************************************************)

\* unicodedata.normalize('NFD', s) followed by dropping the combining marks
\* (category Mn): the accented lower-case letters lose their accent.
AccentToBase ==
    [c \in {"á", "é", "í", "ó", "ú", "ñ", "ü"} |->
        CASE c = "á" -> "a" [] c = "é" -> "e" [] c = "í" -> "i" [] c = "ó" -> "o"
          [] c = "ú" -> "u" [] c = "ñ" -> "n" [] c = "ü" -> "u"]

StripAccents(s) == MapChars(AccentToBase, s)

\* The plural stemming of one word.
StemWord(word) ==
    IF EndsWith(word, "es") /\ Len(word) > 4 THEN SubSeq(word, 1, Len(word) - 2)
    ELSE IF EndsWith(word, "s") /\ Len(word) > 3 /\ ~EndsWith(word, "ss")
         THEN SubSeq(word, 1, Len(word) - 1)
    ELSE word

StemWords(words) == [i \in 1..Len(words) |-> StemWord(words[i])]

\* create_search_index.normalize_text on a string argument.
normalize_text(text) ==
    Join(" ", StemWords(Split(StripAccents(Lower(text)))))

\* The abbreviation table of normalize_query, in its declared (dict) order.
term_mapping ==
    << <<"dicta", "dictadura militar">>,
       <<"ddhh", "derechos humanos">>,
       <<"dd.hh", "derechos humanos">>,
       <<"dd hh", "derechos humanos">>,
       <<"mir", "movimiento izquierda revolucionaria">>,
       <<"pc", "partido comunista">>,
       <<"ps", "partido socialista">>,
       <<"pdc", "partido democrata cristiano">>,
       <<"golpe", "golpe estado 1973">>,
       <<"pinochet", "dictadura militar pinochet">>,
       <<"allende", "salvador allende">>,
       <<"aylwin", "patricio aylwin">>,
       <<"73", "1973">>,
       <<"74", "1974">>,
       <<"75", "1975">>,
       <<"76", "1976">>,
       <<"80", "1980">>,
       <<"90", "1990">>,
       <<"fotos", "fotografias">>,
       <<"imagenes", "fotografias">>,
       <<"pics", "fotografias">> >>

RECURSIVE ApplyMapping(_, _, _)
\* The loop `for abbrev, full_term in term_mapping.items()` from entry i on.
ApplyMapping(mapping, i, normalized) ==
    IF i > Len(mapping) THEN normalized
    ELSE ApplyMapping(mapping, i + 1,
            IF Contains(normalized, mapping[i][1])
            THEN Replace(normalized, mapping[i][1], mapping[i][2])
            ELSE normalized)

\* api_chatbot.normalize_query on a string argument.
normalize_query(query) ==
    ApplyMapping(term_mapping, 1,
        Join(" ", StemWords(Split(StripAccents(Strip(Lower(query)))))))

(***************************************************************************)
(* Scores.  A relevance_score is an exact rational [num, den] with den > 0 *)
(* (the Python float it stands for is num / den).                          *)
(***************************************************************************)

Rat(n, d) == [num |-> n, den |-> d]

RatLess(a, b) ==
    IF a.den = b.den THEN a.num < b.num ELSE a.num * b.den < b.num * a.den

RatEq(a, b) ==
    IF a.den = b.den THEN a.num = b.num ELSE a.num * b.den = b.num * a.den

RatPositive(a) == a.num > 0

RECURSIVE InsertDescending(_, _)
\* Helper of SortDescending: put x behind every element of the sorted list
\* whose relevance_score is not less than x's.
InsertDescending(sorted, x) ==
    IF sorted = <<>> THEN <<x>>
    ELSE IF RatLess(Head(sorted).relevance_score, x.relevance_score)
         THEN <<x>> \o sorted
         ELSE <<Head(sorted)>> \o InsertDescending(Tail(sorted), x)

RECURSIVE SortDescendingFrom(_, _, _)
SortDescendingFrom(list, i, acc) ==
    IF i > Len(list) THEN acc
    ELSE SortDescendingFrom(list, i + 1, InsertDescending(acc, list[i]))

\* Variant of SortDescending that sorts ascending and reverses the list:
\* entries of equal score come out in reverse input order.
SortDescending_Reversed(list) ==
    SortDescendingFrom([i \in 1..Len(list) |-> list[Len(list) + 1 - i]], 1, <<>>)

\* list.sort(key=lambda x: x['relevance_score'], reverse=True) and
\* sorted(..., reverse=True): descending by score and stable (entries of
\* equal score keep their input order).
SortDescending(list) == SortDescendingFrom(list, 1, <<>>)

\* Variant of Take that does not slice.
Take_Unsliced(list, k) == list

\* list[:k] for k >= 0
Take(list, k) == SubSeq(list, 1, IF k < Len(list) THEN k ELSE Len(list))

(***************************************************************************)
(* Documents and tokenisation                                              *)
(***************************************************************************)

\* A corpus document: the dict keys the strategies read.  An absent key
\* reads as "" or <<>> (what dict.get defaults to).
Doc(title, dcTitle, href, subject, creator, coverage) ==
    [title |-> title, dc_title |-> dcTitle, href |-> href,
     dc_subject |-> subject, dc_creator |-> creator, dc_coverage |-> coverage]

\* Stands for a query argument that is not a string (None): str methods
\* called on it raise AttributeError, and it is never read as text.
NoneQuery == "<None>"

\* The characters the regex class \w does not match (of the modelled inputs).
NonWordChars ==
    {" ", ",", ".", ";", ":", "-", "/", "?", "¿", "!", "¡", "(", ")", "[", "]"}

IsWordChar(c) == c \notin NonWordChars

RECURSIVE WordRunsFrom(_, _)
\* Helper of FindWords: the maximal runs of \w characters of s, in order.
WordRunsFrom(s, cur) ==
    IF s = "" THEN (IF cur = "" THEN <<>> ELSE <<cur>>)
    ELSE IF IsWordChar(Head(s))
         THEN WordRunsFrom(Tail(s), cur \o Head(s))
         ELSE (IF cur = "" THEN <<>> ELSE <<cur>>) \o WordRunsFrom(Tail(s), "")

\* set(re.findall(r'\b\w{3,}\b', s)): the maximal \w runs of 3 or more
\* characters.
FindWords(s) == {w \in SeqToSet(WordRunsFrom(s, "")) : Len(w) >= 3}

\* A search result entry: a copy of the document with the result keys.
Scored(doc, score, strategy, matchType) ==
    [doc |-> doc, relevance_score |-> score, strategy |-> strategy,
     match_type |-> matchType, strategies_used |-> <<>>]

\* What a search call produces: the returned list, or a raised exception.
Returned(list) == [raised |-> FALSE, docs |-> list]
Raised == [raised |-> TRUE, docs |-> <<>>]

RECURSIVE SelectSeq2(_, _)
\* Helper: the non-empty entries of a list of 0- or 1-element lists, joined.
SelectSeq2(lists, i) ==
    IF i > Len(lists) THEN <<>> ELSE lists[i] \o SelectSeq2(lists, i + 1)

(***************************************************************************)
(* What the strategies compute for one document                            *)
(***************************************************************************)

\* doc.get('title', '') or doc.get('dc:title', '')
ExactTitleOf(doc) == IF doc.title # "" THEN doc.title ELSE doc.dc_title

\* Variant of ExactTitleScore that tests the word overlap before the
\* substrings.
ExactTitleScore_WordsFirst(query_lower, title_lower) ==
    Bind(SeqToSet(Split(query_lower)), LAMBDA query_words :
    Bind(IF query_words = {} THEN 1 ELSE Cardinality(query_words), LAMBDA n :
    Bind(Cardinality(query_words \cap SeqToSet(Split(title_lower))), LAMBDA overlap :
        IF query_lower = title_lower THEN <<Rat(100 * n, 100 * n), "exact">>
        ELSE IF overlap > 0 THEN <<Rat(70 * overlap, 100 * n), "word_overlap">>
        ELSE IF Contains(title_lower, query_lower) THEN <<Rat(90 * n, 100 * n), "contains">>
        ELSE IF Contains(query_lower, title_lower)
             THEN <<Rat(85 * n, 100 * n), "reverse_contains">>
        ELSE <<Rat(0, 100 * n), "none">>)))

\* The score and match type ExactTitleSearchStrategy.search gives a lowered
\* title against the lowered, stripped query (score 0: no match).  The
\* score is scaled by 100 * |query_words| (by 100 for no query word).
ExactTitleScore(query_lower, title_lower) ==
    Bind(SeqToSet(Split(query_lower)), LAMBDA query_words :
    Bind(IF query_words = {} THEN 1 ELSE Cardinality(query_words), LAMBDA n :
    Bind(Cardinality(query_words \cap SeqToSet(Split(title_lower))), LAMBDA overlap :
        IF query_lower = title_lower THEN <<Rat(100 * n, 100 * n), "exact">>
        ELSE IF Contains(title_lower, query_lower) THEN <<Rat(90 * n, 100 * n), "contains">>
        ELSE IF Contains(query_lower, title_lower)
             THEN <<Rat(85 * n, 100 * n), "reverse_contains">>
        ELSE IF overlap > 0 THEN <<Rat(70 * overlap, 100 * n), "word_overlap">>
        ELSE <<Rat(0, 100 * n), "none">>)))

\* One pass of the loop body of ExactTitleSearchStrategy.search: the
\* document is skipped (no title) or scored.
ExactTitleMatch(query, doc) ==
    Bind(ExactTitleOf(doc), LAMBDA title :
        IF title = "" THEN [outcome |-> "skip", score |-> Rat(0, 1), match_type |-> "none"]
        ELSE Bind(ExactTitleScore(Strip(Lower(query)), Lower(title)), LAMBDA sc :
                 [outcome |-> "scored", score |-> sc[1], match_type |-> sc[2]]))

\* The score TFIDFSearchStrategy._keyword_fallback gives one document,
\* scaled by |query_words|.
KeywordOverlap(query, doc) ==
    Bind(FindWords(Lower(query)), LAMBDA query_words :
        Rat(Cardinality(query_words
                        \cap FindWords(Lower(doc.title \o " " \o Join(" ", doc.dc_subject)))),
            IF query_words = {} THEN 1 ELSE Cardinality(query_words)))

\* MetadataSearchStrategy.FIELD_WEIGHTS in tenths, in dict order:
\* title, dc:title, dc:subject, dc:creator, dc:coverage.
FIELD_WEIGHTS == <<30, 30, 20, 15, 10>>

\* The text of each weighted field of a document, in FIELD_WEIGHTS order
\* (a list value is joined with spaces, another value goes through str()).
FieldTexts(doc) ==
    <<doc.title, doc.dc_title, Join(" ", doc.dc_subject),
      Join(" ", doc.dc_creator), Join(" ", doc.dc_coverage)>>

\* MetadataSearchStrategy.SYNONYMS in dict order.
SYNONYMS ==
    << <<"fotos", <<"fotografías", "imágenes">> >>,
       <<"cartas", <<"correspondencia", "misivas">> >>,
       <<"dictadura", <<"régimen militar", "pinochet">> >>,
       <<"derechos humanos", <<"ddhh", "violaciones">> >> >>

\* MetadataSearchStrategy._expand_query
ExpandQuery(query) ==
    Bind(Lower(query), LAMBDA query_lower :
        <<query>> \o
        SelectSeq2([t \in 1..Len(SYNONYMS) |->
                      IF Contains(query_lower, SYNONYMS[t][1])
                      THEN [k \in 1..Len(SYNONYMS[t][2]) |->
                               Replace(query_lower, SYNONYMS[t][1], SYNONYMS[t][2][k])]
                      ELSE <<>>], 1))

RECURSIVE SumOver(_, _)
\* Helper: the sum of f[i] for i in f's domain 1..n.
SumOver(f, n) == IF n = 0 THEN 0 ELSE f[n] + SumOver(f, n - 1)

RECURSIVE ProductOver(_, _)
ProductOver(f, n) == IF n = 0 THEN 1 ELSE f[n] * ProductOver(f, n - 1)

\* The score MetadataSearchStrategy.search gives one document.  With n[q]
\* the number of words of query variant q (1 for none) and D the product of
\* the n[q], the score is scaled by 10 * D.
MetadataScore(query, doc) ==
    Bind(ExpandQuery(query), LAMBDA queries :
    Bind([q \in 1..Len(queries) |-> FindWords(Lower(queries[q]))], LAMBDA q_words :
    Bind([q \in 1..Len(queries) |->
             IF q_words[q] = {} THEN 1 ELSE Cardinality(q_words[q])], LAMBDA n :
    Bind(ProductOver(n, Len(queries)), LAMBDA D :
    Bind(FieldTexts(doc), LAMBDA texts :
        Rat(SumOver([q \in 1..Len(queries) |->
                (D \div n[q]) *
                SumOver([f \in 1..Len(FIELD_WEIGHTS) |->
                            FIELD_WEIGHTS[f] *
                            Cardinality(q_words[q] \cap FindWords(Lower(texts[f])))],
                        Len(FIELD_WEIGHTS))],
                Len(queries)),
            10 * D))))))

\* The number of query words the text of a document shares with the query.
SharedWords(query, doc) ==
    Cardinality(FindWords(Lower(query)) \cap
                FindWords(Lower(doc.title \o " " \o doc.dc_title \o " "
                                \o Join(" ", doc.dc_subject))))

(***************************************************************************)
(* The documents and queries of the checked runs                           *)
(***************************************************************************)

DocPool ==
    { Doc("Carta de Aylwin", "", "/a1", <<"cartas", "aylwin">>, <<>>, <<>>),
      Doc("", "Fotos de la dictadura", "/a2", <<"fotografías">>, <<"Aylwin">>, <<>>),
      Doc("Carta ", "", "/a3", <<>>, <<>>, <<"carta">>) }

QueryPool == {"", "Carta ", "carta de aylwin", "fotos dictadura 1973"}

\* The query arguments of the checked searches.
QueryArgs == QueryPool \cup {NoneQuery}

\* What the loop bodies of the strategies compute for a query and a
\* document, computed once for the pools and looked up by the searches.
Analysis(query, doc) ==
    [exact |-> ExactTitleMatch(query, doc), keyword |-> KeywordOverlap(query, doc),
     metadata |-> MetadataScore(query, doc), shared |-> SharedWords(query, doc)]

Analyses == {<<q, d, Analysis(q, d)>> : q \in QueryPool, d \in DocPool}

Analyzed(query, doc) ==
    IF query \in QueryPool /\ doc \in DocPool
    THEN (CHOOSE e \in Analyses : e[1] = query /\ e[2] = doc)[3]
    ELSE Analysis(query, doc)

(***************************************************************************)
(* ExactTitleSearchStrategy                                                *)
(***************************************************************************)

\* ExactTitleSearchStrategy.search; query.lower() raises on a non-string.
ExactTitleSearch(query, documents, top_k) ==
    IF query = NoneQuery THEN Raised
    ELSE Returned(Take(SortDescending(SelectSeq2(
            [i \in 1..Len(documents) |->
                Bind(Analyzed(query, documents[i]).exact, LAMBDA m :
                    IF m.outcome = "skip" \/ ~RatPositive(m.score) THEN <<>>
                    ELSE <<Scored(documents[i], m.score, "exact_title", m.match_type)>>)],
            1)), top_k))

(***************************************************************************)
(* External capabilities.  The fitted TF-IDF index and the embedding        *)
(* function are injected; what they answer for one call is an oracle value: *)
(* outcome says whether the call succeeded, sims gives the cosine           *)
(* similarity (in hundredths) of the query to each document, order is the   *)
(* order numpy's argsort()[::-1] lists the documents in.                    *)
(***************************************************************************)

\* Cosine similarities in hundredths: at the TF-IDF threshold, at the
\* semantic threshold, and above both.
SimValues == {1, 30, 60}

\* sims value of a document that has no entry in the embedding table.
NoEmbedding == -1

\* similarities[idx] > 0.01, in hundredths
TfidfThreshold == 1

\* similarity > 0.3, in hundredths
SemanticThreshold == 30

NoOracle == [outcome |-> "unused", sims |-> <<>>, order |-> <<>>]

\* argsort()[::-1] is descending by similarity; the order among equal
\* similarities is whatever the sort algorithm leaves.
DescendingOrders(sims) ==
    {o \in Permutations(DOMAIN sims) :
        \A i, j \in DOMAIN sims : i < j => sims[o[i]] >= sims[o[j]]}

\* What a TF-IDF index can answer given the possible similarity tables:
\* the transform or the cosine raises, or the similarities and an order.
TfidfOracles(tables) ==
    {[outcome |-> "raise", sims |-> <<>>, order |-> <<>>]}
    \cup UNION {{[outcome |-> "ok", sims |-> sm, order |-> o] : o \in DescendingOrders(sm)} :
                  sm \in tables}

\* What the embedder and the embedding table can answer: the embedder
\* raises, returns null, or returns a vector with these similarities.
SemanticOracles(tables) ==
    {[outcome |-> oc, sims |-> <<>>, order |-> <<>>] : oc \in {"raise", "null"}}
    \cup {[outcome |-> "ok", sims |-> sm, order |-> <<>>] : sm \in tables}

(***************************************************************************)
(* TFIDFSearchStrategy                                                     *)
(***************************************************************************)

\* TFIDFSearchStrategy._keyword_fallback; query.lower() raises on a
\* non-string.
KeywordFallback(query, documents, top_k) ==
    IF query = NoneQuery THEN Raised
    ELSE Returned(Take(SortDescending(SelectSeq2(
            [i \in 1..Len(documents) |->
                Bind(Analyzed(query, documents[i]).keyword, LAMBDA sc :
                    IF RatPositive(sc)
                    THEN <<Scored(documents[i], sc, "keyword_fallback", "")>>
                    ELSE <<>>)],
            1)), top_k))

\* TFIDFSearchStrategy.search; has_index is `self._index` being set.
TFIDFSearch(has_index, oracle, query, documents, top_k) ==
    IF ~has_index \/ oracle.outcome # "ok"
    THEN KeywordFallback(query, documents, top_k)
    ELSE Bind(Take(oracle.order, top_k), LAMBDA top_indices :
             Returned(SelectSeq2(
                [j \in 1..Len(top_indices) |->
                    IF oracle.sims[top_indices[j]] > TfidfThreshold
                    THEN <<Scored(documents[top_indices[j]],
                                  Rat(oracle.sims[top_indices[j]], 100), "tfidf", "")>>
                    ELSE <<>>],
                1)))

(***************************************************************************)
(* SemanticSearchStrategy                                                  *)
(***************************************************************************)

\* the calls of the embedder a search makes: none if the embedder or the
\* embedding table is missing, else one, with the query
EmbedderCalls(has_embedder, has_embeddings, query) ==
    IF ~has_embedder \/ ~has_embeddings THEN <<>> ELSE <<query>>

\* the search with the `except Exception` clause taken away
SemanticSearch_Uncaught(has_embedder, has_embeddings, oracle, query, documents, top_k) ==
    IF has_embedder /\ has_embeddings /\ oracle.outcome = "raise" THEN Raised
    ELSE Returned(<<>>)

\* SemanticSearchStrategy.search; has_embedder and has_embeddings are
\* `self._embedder` and `self._doc_embeddings` being set and non-empty.
SemanticSearch(has_embedder, has_embeddings, oracle, query, documents, top_k) ==
    IF ~has_embedder \/ ~has_embeddings THEN Returned(<<>>)
    ELSE IF oracle.outcome # "ok" THEN Returned(<<>>)
    ELSE LET entry(i) ==
                IF oracle.sims[i] # NoEmbedding /\ oracle.sims[i] > SemanticThreshold
                THEN <<Scored(documents[i], Rat(oracle.sims[i], 100), "semantic", "")>>
                ELSE <<>>
             results == SelectSeq2([i \in 1..Len(documents) |-> entry(i)], 1)
         IN  Returned(Take(SortDescending(results), top_k))

(***************************************************************************)
(* MetadataSearchStrategy                                                  *)
(***************************************************************************)

\* MetadataSearchStrategy.search; query.lower() in _expand_query raises on
\* a non-string.
MetadataSearch(query, documents, top_k) ==
    IF query = NoneQuery THEN Raised
    ELSE Returned(Take(SortDescending(SelectSeq2(
            [i \in 1..Len(documents) |->
                Bind(Analyzed(query, documents[i]).metadata, LAMBDA sc :
                    IF RatPositive(sc) THEN <<Scored(documents[i], sc, "metadata", "")>>
                    ELSE <<>>)],
            1)), top_k))

(***************************************************************************)
(* Strategy objects and HybridSearchStrategy                               *)
(***************************************************************************)

\* A non-composite strategy object: kind is what get_name() returns; the
\* flags are the injected dependencies it holds.
Strategy(kind, hasIndex, hasEmbedder, hasEmbeddings) ==
    [kind |-> kind, has_index |-> hasIndex, has_embedder |-> hasEmbedder,
     has_embeddings |-> hasEmbeddings]

ExactTitleStrategy == Strategy("ExactTitleSearch", FALSE, FALSE, FALSE)
MetadataStrategy == Strategy("MetadataSearch", FALSE, FALSE, FALSE)
TFIDFStrategy(hasIndex) == Strategy("TFIDFSearch", hasIndex, FALSE, FALSE)
SemanticStrategy(hasEmbedder, hasEmbeddings) ==
    Strategy("SemanticSearch", FALSE, hasEmbedder, hasEmbeddings)

\* The oracle values a search of this strategy can meet when the similarity
\* tables of the TF-IDF index and of the embeddings are among the given ones.
OraclesFor(strategy, tfidfTables, semanticTables) ==
    IF strategy.kind = "TFIDFSearch" /\ strategy.has_index THEN TfidfOracles(tfidfTables)
    ELSE IF strategy.kind = "SemanticSearch" /\ strategy.has_embedder
            /\ strategy.has_embeddings
         THEN SemanticOracles(semanticTables)
    ELSE {NoOracle}

\* strategy.search(query, documents, top_k) by dynamic dispatch.
StrategySearch(strategy, oracle, query, documents, top_k) ==
    CASE strategy.kind = "ExactTitleSearch" -> ExactTitleSearch(query, documents, top_k)
      [] strategy.kind = "MetadataSearch" -> MetadataSearch(query, documents, top_k)
      [] strategy.kind = "TFIDFSearch" ->
            TFIDFSearch(strategy.has_index, oracle, query, documents, top_k)
      [] strategy.kind = "SemanticSearch" ->
            SemanticSearch(strategy.has_embedder, strategy.has_embeddings, oracle,
                           query, documents, top_k)

\* The k of Reciprocal Rank Fusion.
RRF_K == 60

RECURSIVE RankProduct(_)
\* The common denominator of the RRF terms of ranks 1..n.
RankProduct(n) == IF n = 0 THEN 1 ELSE (RRF_K + n) * RankProduct(n - 1)

\* rrf_score = weight / (60 + rank), scaled by 10 * P (the weight is in
\* tenths and P is a multiple of 60 + rank).
RRFScore_ZeroBased(weight, rank, P) == weight * (P \div (RRF_K + rank - 1))

RRFScore(weight, rank, P) == weight * (P \div (RRF_K + rank))

\* Variant of Accumulate that never merges: every ranked document opens a
\* new entry.
Accumulate_Unmerged(acc, doc, term, den, name) ==
    Append(acc, [doc EXCEPT !.relevance_score = Rat(term, den),
                            !.strategies_used = <<name>>])

\* One pass of the body of `for rank, doc in enumerate(results, 1)`: add the
\* RRF term to all_scores[href] and merge the document into all_results.
\* acc lists the hrefs in the insertion order of the two dicts.
Accumulate(acc, doc, term, den, name) ==
    IF \E i \in 1..Len(acc) : acc[i].doc.href = doc.doc.href
    THEN [i \in 1..Len(acc) |->
            IF acc[i].doc.href = doc.doc.href
            THEN [acc[i] EXCEPT !.relevance_score = Rat(@.num + term, den),
                                !.strategies_used = Append(@, name)]
            ELSE acc[i]]
    ELSE Append(acc, [doc EXCEPT !.relevance_score = Rat(term, den),
                                 !.strategies_used = <<name>>])

RECURSIVE FuseRanks(_, _, _, _, _, _)
\* The inner loop of HybridSearchStrategy.search from rank on.
FuseRanks(acc, results, rank, weight, name, P) ==
    IF rank > Len(results) THEN acc
    ELSE FuseRanks(Accumulate(acc, results[rank], RRFScore(weight, rank, P), 10 * P, name),
                   results, rank + 1, weight, name, P)

\* One entry of the log of the sub-strategy calls of a hybrid search.
Call(name, weight, topK, result) ==
    [name |-> name, weight |-> weight, top_k |-> topK, result |-> result]

RECURSIVE RunStrategies(_, _, _, _, _, _, _)
\* The calls `strategy.search(query, documents, top_k=top_k * 2)` of the
\* outer loop from strategy i on, in order; the loop ends at the first call
\* that raises (nothing catches the exception).
RunStrategies(strategies, oracles, i, calls, query, documents, top_k) ==
    IF i > Len(strategies) THEN calls
    ELSE Bind(StrategySearch(strategies[i].strategy, oracles[i], query, documents, top_k * 2),
              LAMBDA res :
         Bind(Append(calls, Call(strategies[i].strategy.kind, strategies[i].weight,
                                 top_k * 2, res)),
              LAMBDA log :
             IF res.raised THEN log
             ELSE RunStrategies(strategies, oracles, i + 1, log, query, documents, top_k)))

RECURSIVE FuseCalls(_, _, _, _)
\* all_scores and all_results after the results of the calls from i on were
\* accumulated.
FuseCalls(calls, i, acc, P) ==
    IF i > Len(calls) THEN acc
    ELSE FuseCalls(calls, i + 1,
            FuseRanks(acc, calls[i].result.docs, 1, calls[i].weight, calls[i].name, P), P)

\* The tail of HybridSearchStrategy.search: sort the hrefs by combined score
\* and return the top_k merged documents.
RankFused(fused, top_k) ==
    Bind(Take(SortDescending(fused), top_k), LAMBDA sorted :
        [i \in 1..Len(sorted) |-> [sorted[i] EXCEPT !.strategy = "hybrid"]])

\* HybridSearchStrategy.search: strategies is self._strategies, a list of
\* [strategy, weight] with the weight in tenths.  The sub-strategy searches
\* do not depend on the scores accumulated so far, so they are listed first.
HybridSearch(strategies, oracles, query, documents, top_k) ==
    IF strategies = <<>> THEN [raised |-> FALSE, docs |-> <<>>, calls |-> <<>>]
    ELSE Bind(RunStrategies(strategies, oracles, 1, <<>>, query, documents, top_k),
              LAMBDA log :
             IF log[Len(log)].result.raised
             THEN [raised |-> TRUE, docs |-> <<>>, calls |-> log]
             ELSE [raised |-> FALSE,
                   docs |-> RankFused(FuseCalls(log, 1, <<>>, RankProduct(Len(documents))),
                                      top_k),
                   calls |-> log])

(***************************************************************************)
(* The dict objects a search writes to.  A document of the corpus is the    *)
(* object at its position of the list; dict.copy() makes a new object with  *)
(* the same items.                                                          *)
(***************************************************************************)

CorpusObject(i) == [place |-> "corpus", index |-> i]

\* Variant of doc_copy that hands out the object itself (result = doc).
doc_copy_Alias(object) == object

\* doc.copy(): a new dict object holding the items of the given one
doc_copy(object) == [object EXCEPT !.place = "copy"]

\* The keys the strategies assign on their result objects.
ResultKeys(kind) ==
    IF kind = "ExactTitleSearch" THEN {"relevance_score", "_match_type", "_strategy"}
    ELSE IF kind = "HybridSearch" THEN {"_strategies_used", "relevance_score", "_strategy"}
    ELSE {"relevance_score", "_strategy"}

\* The positions of the documents for which a strategy's search makes a
\* result object: every document it scores, before the sort and the slice
\* (for TF-IDF with its index: the documents of the top indices it returns).
CopiedIndices(strategy, oracle, query, documents, top_k) ==
    Bind(StrategySearch(strategy, oracle, query, documents,
                        IF strategy.kind = "TFIDFSearch" /\ strategy.has_index
                           /\ oracle.outcome = "ok"
                        THEN top_k ELSE Len(documents)),
         LAMBDA scored :
            {i \in 1..Len(documents) :
                \E j \in 1..Len(scored.docs) : scored.docs[j].doc = documents[i]})

\* The list of documents after the given keys were assigned on the given
\* objects: an assignment on a copy leaves the list as it was.
AssignKeys(documents, objects, keys) ==
    [i \in 1..Len(documents) |->
        IF CorpusObject(i) \in objects
        THEN [k \in keys |-> "assigned"] @@ documents[i]
        ELSE documents[i]]

\* The list of documents after the search of a non-composite strategy:
\* result = doc.copy(); result['relevance_score'] = ...; ...
DocumentsAfterSearch(strategy, oracle, query, documents, top_k) ==
    AssignKeys(documents,
               {doc_copy(CorpusObject(i)) :
                    i \in CopiedIndices(strategy, oracle, query, documents, top_k)},
               ResultKeys(strategy.kind))

RECURSIVE DocumentsAfterCalls(_, _, _, _, _, _)
\* The list of documents after the sub-strategy searches of a hybrid search
\* (each called with top_k * 2), as far as the loop got.
DocumentsAfterCalls(strategies, oracles, i, calls, query, documents) ==
    IF i > Len(calls) THEN documents
    ELSE DocumentsAfterCalls(strategies, oracles, i + 1, calls, query,
             DocumentsAfterSearch(strategies[i].strategy, oracles[i], query, documents,
                                  calls[i].top_k))

\* The list of documents after a hybrid search: the sub-strategy searches,
\* then all_results[href] = doc.copy() for the entries they returned and the
\* assignments on those objects.
DocumentsAfterHybrid(strategies, oracles, calls, query, documents) ==
    AssignKeys(DocumentsAfterCalls(strategies, oracles, 1, calls, query, documents),
               {doc_copy(doc_copy(CorpusObject(i))) :
                    i \in {n \in 1..Len(documents) :
                             \E c \in 1..Len(calls) :
                                \E j \in 1..Len(calls[c].result.docs) :
                                    calls[c].result.docs[j].doc = documents[n]}},
               ResultKeys("HybridSearch"))

(***************************************************************************)
(* Document comparators (services/conversation.py)                         *)
(***************************************************************************)

\* the indices of a list, in order, that satisfy a test on the document there
RECURSIVE IndicesWithHrefIn(_, _, _)
IndicesWithHrefIn(new_docs, previous_hrefs, i) ==
    IF i > Len(new_docs) THEN <<>>
    ELSE (IF new_docs[i].href \in previous_hrefs THEN <<i>> ELSE <<>>)
         \o IndicesWithHrefIn(new_docs, previous_hrefs, i + 1)

RECURSIVE PickOutside(_, _, _)
PickOutside(new_docs, indices, i) ==
    IF i > Len(new_docs) THEN <<>>
    ELSE (IF i \in SeqToSet(indices) THEN <<>> ELSE <<new_docs[i]>>)
         \o PickOutside(new_docs, indices, i + 1)

\* DocumentComparator.find_similar: the positions whose href was seen
\* before are `similar`, every other position is `truly_new`
DocumentComparator_find_similar(new_docs, previous_hrefs) ==
    LET similar_indices == IndicesWithHrefIn(new_docs, previous_hrefs, 1)
    IN  [truly_new |-> PickOutside(new_docs, similar_indices, 1),
         similar   |-> [k \in 1..Len(similar_indices) |-> new_docs[similar_indices[k]]]]

\* the loop of FuzzyDocumentComparator.find_similar without its `continue`:
\* a document seen before is appended to both lists
RECURSIVE FuzzyLoop_NoContinue(_, _, _, _)
FuzzyLoop_NoContinue(new_docs, previous_hrefs, i, acc) ==
    IF i > Len(new_docs) THEN acc
    ELSE LET new_doc == new_docs[i]
             seen == new_doc.href \in previous_hrefs
         IN  FuzzyLoop_NoContinue(new_docs, previous_hrefs, i + 1,
                 [truly_new |-> Append(acc.truly_new, new_doc),
                  similar   |-> IF seen THEN Append(acc.similar, new_doc)
                                ELSE acc.similar])

\* the loop of FuzzyDocumentComparator.find_similar: an exact href match
\* appends to `similar` and continues; the title comparison is never made
\* (is_similar stays False), so every other document is appended to truly_new
RECURSIVE FuzzyLoop(_, _, _, _)
FuzzyLoop(new_docs, previous_hrefs, i, acc) ==
    IF i > Len(new_docs) THEN acc
    ELSE LET new_doc == new_docs[i]
             new_href == new_doc.href
             new_title == Lower(new_doc.title)
             is_similar == FALSE
         IN  IF new_href \in previous_hrefs
             THEN FuzzyLoop(new_docs, previous_hrefs, i + 1,
                      [acc EXCEPT !.similar = Append(@, new_doc)])
             ELSE IF ~is_similar
                  THEN FuzzyLoop(new_docs, previous_hrefs, i + 1,
                           [acc EXCEPT !.truly_new = Append(@, new_doc)])
                  ELSE FuzzyLoop(new_docs, previous_hrefs, i + 1, acc)

FuzzyDocumentComparator_find_similar(new_docs, previous_hrefs) ==
    FuzzyLoop(new_docs, previous_hrefs, 1, [truly_new |-> <<>>, similar |-> <<>>])

\* SimilarityStrategy.find_similar, dispatched on the comparator's class
find_similar(comparator, new_docs, previous_hrefs) ==
    IF comparator = "DocumentComparator"
    THEN DocumentComparator_find_similar(new_docs, previous_hrefs)
    ELSE FuzzyDocumentComparator_find_similar(new_docs, previous_hrefs)

(***************************************************************************)
(* Python regular expressions (module re), as far as the patterns of the   *)
(* chatbot use them.  A pattern is written as in the source (with the      *)
(* backslash doubled), parsed into a tree and matched by backtracking in   *)
(* the priority order of re: alternatives left to right, greedy            *)
(* repetitions longest first, lazy ones shortest first.                    *)
(***************************************************************************)

\* s[i-1:i] and s[a-1:b] of Python: out-of-range positions give no characters
At(s, i) == IF i >= 1 /\ i <= Len(s) THEN SubSeq(s, i, i) ELSE ""
Slice(s, a, b) ==
    LET lo == IF a < 1 THEN 1 ELSE a
        hi == IF b > Len(s) THEN Len(s) ELSE b
    IN  IF lo > hi THEN "" ELSE SubSeq(s, lo, hi)

LowerLetters == "abcdefghijklmnopqrstuvwxyz"
Digits == "0123456789"

\* position of a character in a string, 0 if absent
RECURSIVE IndexOf(_, _, _)
IndexOf(s, c, i) ==
    IF i > Len(s) THEN 0 ELSE IF At(s, i) = c THEN i ELSE IndexOf(s, c, i + 1)

\* the characters of a class range lo-hi (letters or digits)
RangeChars(lo, hi) ==
    LET line == IF IndexOf(Digits, lo, 1) > 0 THEN Digits ELSE LowerLetters
    IN  {At(line, k) : k \in IndexOf(line, lo, 1)..IndexOf(line, hi, 1)}

Node(t, c, kids, n) == [t |-> t, c |-> c, kids |-> kids, n |-> n]

\* \s, \d and \w of a str pattern
SpaceSet == Whitespace
DigitSet == {At(Digits, k) : k \in 1..Len(Digits)}

\* the number of the capturing group opened at position i of pattern p
RECURSIVE GroupNumber(_, _)
GroupNumber(p, i) ==
    IF i < 1 THEN 0
    ELSE GroupNumber(p, i - 1) +
         (IF At(p, i) = "(" /\ At(p, i - 1) # "\\"
             /\ Slice(p, i + 1, i + 2) # "?:" THEN 1 ELSE 0)

\* an escape sequence \x outside a class
EscapeNode(x) ==
    CASE x = "s" -> Node("set", SpaceSet, <<>>, 0)
      [] x = "d" -> Node("set", DigitSet, <<>>, 0)
      [] x = "b" -> Node("wb", {}, <<>>, 0)
      [] x = "w" -> Node("word", {}, <<>>, 0)
      [] OTHER   -> Node("set", {x}, <<>>, 0)

\* the members of a character class, read from position i up to "]"
RECURSIVE ClassChars(_, _)
ClassChars(p, i) ==
    IF At(p, i) = "]" THEN [chars |-> {}, next |-> i + 1]
    ELSE IF At(p, i) = "\\"
         THEN LET rest == ClassChars(p, i + 2)
                  x == At(p, i + 1)
              IN  [rest EXCEPT !.chars = @ \cup
                      (IF x = "s" THEN SpaceSet ELSE IF x = "d" THEN DigitSet ELSE {x})]
    ELSE IF At(p, i + 1) = "-" /\ At(p, i + 2) # "]"
         THEN LET rest == ClassChars(p, i + 3)
              IN  [rest EXCEPT !.chars = @ \cup RangeChars(At(p, i), At(p, i + 2))]
    ELSE LET rest == ClassChars(p, i + 1)
         IN  [rest EXCEPT !.chars = @ \cup {At(p, i)}]

Copies(x, n) == [k \in 1..n |-> x]

\* the repetition operator at position i applied to atom x, if there is one
Quantify(p, i, x) ==
    LET c == At(p, i)
        lazy == At(p, i + 1) = "?"
        skip == IF lazy THEN 2 ELSE 1
    IN  CASE c = "*" ->
               [node |-> Node(IF lazy THEN "lazystar" ELSE "star", {}, <<x>>, 0),
                next |-> i + skip]
          [] c = "+" ->
               [node |-> Node("seq", {},
                              <<x, Node(IF lazy THEN "lazystar" ELSE "star", {}, <<x>>, 0)>>, 0),
                next |-> i + skip]
          [] c = "?" -> [node |-> Node("opt", {}, <<x>>, 0), next |-> i + 1]
          [] c = "{" ->
               LET n == IndexOf(Digits, At(p, i + 1), 1) - 1
               IN  IF At(p, i + 2) = ","
                   THEN [node |-> Node("seq", {},
                                       Copies(x, n) \o <<Node("star", {}, <<x>>, 0)>>, 0),
                         next |-> i + 4]
                   ELSE [node |-> Node("seq", {}, Copies(x, n), 0), next |-> i + 3]
          [] OTHER -> [node |-> x, next |-> i]

RECURSIVE ParseAlt(_, _, _), ParseSeq(_, _, _), ParseAtom(_, _)

\* one atom starting at position i
ParseAtom(p, i) ==
    Bind(At(p, i), LAMBDA c :
        CASE c = "(" ->
               Bind(Slice(p, i + 1, i + 2) # "?:", LAMBDA capturing :
               Bind(ParseAlt(p, IF capturing THEN i + 1 ELSE i + 3, <<>>), LAMBDA inner :
                   [node |-> Node("grp", {}, <<inner.node>>,
                                  IF capturing THEN GroupNumber(p, i) ELSE 0),
                    next |-> inner.next + 1]))
          [] c = "[" ->
               Bind(ClassChars(p, i + 1), LAMBDA cls :
                   [node |-> Node("set", cls.chars, <<>>, 0), next |-> cls.next])
          [] c = "\\" -> [node |-> EscapeNode(At(p, i + 1)), next |-> i + 2]
          [] c = "^" -> [node |-> Node("bol", {}, <<>>, 0), next |-> i + 1]
          [] c = "$" -> [node |-> Node("eol", {}, <<>>, 0), next |-> i + 1]
          [] OTHER -> [node |-> Node("set", {c}, <<>>, 0), next |-> i + 1])

\* a sequence of quantified atoms, up to "|", ")" or the end of the pattern
ParseSeq(p, i, kids) ==
    IF i > Len(p) \/ At(p, i) \in {"|", ")"}
    THEN [node |-> Node("seq", {}, kids, 0), next |-> i]
    ELSE Bind(ParseAtom(p, i), LAMBDA atom :
         Bind(Quantify(p, atom.next, atom.node), LAMBDA q :
             ParseSeq(p, q.next, Append(kids, q.node))))

\* alternatives separated by "|", up to ")" or the end of the pattern
ParseAlt(p, i, kids) ==
    Bind(ParseSeq(p, i, <<>>), LAMBDA branch :
    Bind(Append(kids, branch.node), LAMBDA all :
        IF branch.next <= Len(p) /\ At(p, branch.next) = "|"
        THEN ParseAlt(p, branch.next + 1, all)
        ELSE [node |-> Node("alt", {}, all, 0), next |-> branch.next]))

\* re.compile(pattern)
Compile(p) == ParseAlt(p, 1, <<>>).node

\* \w of a str pattern: letters (accented ones too), digits and "_"
IsWordAt(s, i) == i >= 1 /\ i <= Len(s) /\ IsWordChar(At(s, i))

\* drop the later repetitions of a list's elements
RECURSIVE Dedup(_, _)
Dedup(list, seen) ==
    IF list = <<>> THEN <<>>
    ELSE IF Head(list) \in seen THEN Dedup(Tail(list), seen)
    ELSE <<Head(list)>> \o Dedup(Tail(list), seen \cup {Head(list)})

RECURSIVE FlatMap(_, _, _), MatchNode(_, _, _), MatchSeq(_, _, _, _),
          MatchAlt(_, _, _, _), MatchStar(_, _, _, _)

\* A match state is the number of characters consumed so far and the span
\* of group 1 (<<>> until it has closed).  MatchNode gives the states a node
\* can end in when entered in state st, in backtracking priority order.
MatchNode(re, s, st) ==
    LET i == st.pos
    IN  CASE re.t = "set" ->
               IF i < Len(s) /\ At(s, i + 1) \in re.c
               THEN <<[st EXCEPT !.pos = i + 1]>> ELSE <<>>
          [] re.t = "word" ->
               IF IsWordAt(s, i + 1) THEN <<[st EXCEPT !.pos = i + 1]>> ELSE <<>>
          [] re.t = "bol" -> IF i = 0 THEN <<st>> ELSE <<>>
          [] re.t = "eol" -> IF i = Len(s) THEN <<st>> ELSE <<>>
          [] re.t = "wb" ->
               IF IsWordAt(s, i) # IsWordAt(s, i + 1) THEN <<st>> ELSE <<>>
          [] re.t = "seq" -> MatchSeq(re.kids, 1, s, <<st>>)
          [] re.t = "alt" -> Dedup(MatchAlt(re.kids, 1, s, st), {})
          [] re.t = "opt" -> Dedup(MatchNode(re.kids[1], s, st) \o <<st>>, {})
          [] re.t = "star" -> Dedup(MatchStar(re.kids[1], s, st, TRUE), {})
          [] re.t = "lazystar" -> Dedup(MatchStar(re.kids[1], s, st, FALSE), {})
          [] re.t = "grp" ->
               LET inner == MatchNode(re.kids[1], s, st)
               IN  IF re.n = 1
                   THEN [k \in 1..Len(inner) |->
                            [inner[k] EXCEPT !.g1 = <<i, inner[k].pos>>]]
                   ELSE inner

\* continue every state of a list through a node, keeping the order
FlatMap(re, s, states) ==
    IF states = <<>> THEN <<>>
    ELSE MatchNode(re, s, Head(states)) \o FlatMap(re, s, Tail(states))

MatchSeq(kids, k, s, states) ==
    IF k > Len(kids) \/ states = <<>> THEN states
    ELSE MatchSeq(kids, k + 1, s, Dedup(FlatMap(kids[k], s, states), {}))

MatchAlt(kids, k, s, st) ==
    IF k > Len(kids) THEN <<>>
    ELSE MatchNode(kids[k], s, st) \o MatchAlt(kids, k + 1, s, st)

\* zero or more repetitions of x; a repetition that consumes nothing ends
\* the loop
RECURSIVE StarMore(_, _, _, _)
StarMore(x, s, states, greedy) ==
    IF states = <<>> THEN <<>>
    ELSE MatchStar(x, s, Head(states), greedy) \o StarMore(x, s, Tail(states), greedy)

MatchStar(x, s, st, greedy) ==
    Bind(StarMore(x, s, SelectSeq(MatchNode(x, s, st), LAMBDA e : e.pos > st.pos), greedy),
         LAMBDA more : IF greedy THEN more \o <<st>> ELSE <<st>> \o more)

NoMatch == [pos |-> -1, g1 |-> <<>>]

\* pattern.match(s, i): the first state in priority order, NoMatch if none
MatchAt(re, s, i) ==
    Bind(MatchNode(re, s, [pos |-> i, g1 |-> <<>>]), LAMBDA ends :
        IF ends = <<>> THEN NoMatch ELSE Head(ends))

\* re.search(pattern, s) is not None
Search(p, s) ==
    Bind(Compile(p), LAMBDA re : \E i \in 0..Len(s) : MatchAt(re, s, i) # NoMatch)

\* the non-overlapping matches of re in s from position i on, left to right
RECURSIVE MatchesFrom(_, _, _)
MatchesFrom(re, s, i) ==
    IF i > Len(s) THEN <<>>
    ELSE Bind(MatchAt(re, s, i), LAMBDA m :
             IF m = NoMatch THEN MatchesFrom(re, s, i + 1)
             ELSE <<[start |-> i, end |-> m.pos, g1 |-> m.g1]>>
                  \o MatchesFrom(re, s, IF m.pos > i THEN m.pos ELSE i + 1))

\* re.sub(pattern, '', s)
RECURSIVE CutMatches(_, _, _)
CutMatches(s, matches, i) ==
    IF matches = <<>> THEN SubSeq(s, i + 1, Len(s))
    ELSE SubSeq(s, i + 1, Head(matches).start)
         \o CutMatches(s, Tail(matches), Head(matches).end)

SubEmpty(p, s) == CutMatches(s, MatchesFrom(Compile(p), s, 0), 0)

\* re.findall(pattern, s): the text of group 1 if the pattern has a
\* capturing group, of the whole match otherwise
FindAll(p, s) ==
    Bind(MatchesFrom(Compile(p), s, 0), LAMBDA ms :
    Bind(GroupNumber(p, Len(p)) > 0, LAMBDA grouped :
        [k \in 1..Len(ms) |->
            IF grouped
            THEN (IF ms[k].g1 = <<>> THEN "" ELSE Slice(s, ms[k].g1[1] + 1, ms[k].g1[2]))
            ELSE Slice(s, ms[k].start + 1, ms[k].end)]))

(***************************************************************************)
(* Conversation type (api_chatbot.detect_conversation_type)                *)
(***************************************************************************)

\* any(re.search(pattern, s) for pattern in patterns)
AnySearch(patterns, s) == \E k \in 1..Len(patterns) : Search(patterns[k], s)

greetings ==
    << "^(hola|hello|hi|hey|ola)\\s*(,|buenas?|días?|dias?|noches?|tardes?)?$",
       "^(buenas|buenos)\\s*(noches?|días?|dias?|tardes?)?$",
       "^buen(os|as)?\\s+(día|dia|días|dias|tarde|tardes|noche|noches)$",
       "^(qué|que)\\s+tal$",
       "^cómo\\s+(estás|estas|está|esta)$",
       "^saludos$",
       "^\\s*(hola\\s+)?buen(os|as)?\\s*$" >>

farewells ==
    << "\\b(adiós|adios|chao|chau|bye|hasta\\s+luego|nos\\s+vemos)\\b",
       "\\bgracias?\\s+(por\\s+todo|y\\s+adiós|y\\s+adios)\\b",
       "^(chao|adios|adiós|bye)$" >>

\* the gratitude patterns without the two that match a bare "gracias"
gratitude_WithoutThanks ==
    << "^(excelente|genial|perfecto|muy\\s+bien)$",
       "^\\bte\\s+agradezco\\b$" >>

gratitude ==
    << "^(gracias|muchas\\s+gracias|mil\\s+gracias)$",
       "^(gracias|thank\\s+you)$",
       "^(excelente|genial|perfecto|muy\\s+bien)$",
       "^\\bte\\s+agradezco\\b$" >>

help_patterns ==
    << "\\b(ayuda|ayudar|ayúdame|help)\\b",
       "^(qué|que)\\s+(puedes?|hace|ofrece|tiene)$",
       "^cómo\\s+(funciona|usar|buscar|te\\s+uso)$",
       "^(información|info|explica|cuéntame)\\s+(sobre|del|de)?\\s*(bot|chatbot|ti)?$",
       "^qué\\s+es\\s+esto$",
       "^para\\s+qué\\s+sirve" >>

smalltalk ==
    << "^(cómo|como)\\s+(te\\s+llamas?|eres|funcionas)$",
       "^(quién|quien)\\s+eres$",
       "^(qué|que)\\s+(eres|haces)$",
       "^\\bestás\\s+(bien|ahí)$",
       "^eres\\s+(un\\s+)?(bot|robot|ia|inteligencia)$" >>

casual_words == {"ok", "vale", "ya", "si", "sí", "no", "bien", "mal", "bueno"}

\* the function with the help patterns tested before the farewell patterns
detect_conversation_type_HelpFirst(query) ==
    Bind(SubEmpty("[¿?¡!.,;:]", Strip(Lower(query))), LAMBDA query_clean :
    Bind(Split(query_clean), LAMBDA words :
        IF AnySearch(greetings, query_clean) THEN "greeting"
        ELSE IF AnySearch(help_patterns, query_clean) THEN "help"
        ELSE IF AnySearch(farewells, query_clean) THEN "farewell"
        ELSE IF AnySearch(gratitude, query_clean) THEN "gratitude"
        ELSE IF AnySearch(smalltalk, query_clean) THEN "smalltalk"
        ELSE IF Len(words) <= 2 /\ Len(query_clean) < 15
                /\ \E k \in 1..Len(words) : words[k] \in casual_words
             THEN "smalltalk"
        ELSE "search"))

detect_conversation_type(query) ==
    Bind(SubEmpty("[¿?¡!.,;:]", Strip(Lower(query))), LAMBDA query_clean :
    Bind(Split(query_clean), LAMBDA words :
        IF AnySearch(greetings, query_clean) THEN "greeting"
        ELSE IF AnySearch(farewells, query_clean) THEN "farewell"
        ELSE IF AnySearch(gratitude, query_clean) THEN "gratitude"
        ELSE IF AnySearch(help_patterns, query_clean) THEN "help"
        ELSE IF AnySearch(smalltalk, query_clean) THEN "smalltalk"
        ELSE IF Len(words) <= 2 /\ Len(query_clean) < 15
                /\ \E k \in 1..Len(words) : words[k] \in casual_words
             THEN "smalltalk"
        ELSE "search"))

(***************************************************************************)
(* Entity extraction (services/conversation.py)                            *)
(***************************************************************************)

\* int(y) for a string of decimal digits, and str(n) for n >= 0
RECURSIVE StrToInt(_, _)
StrToInt(s, acc) ==
    IF s = "" THEN acc
    ELSE StrToInt(Tail(s), 10 * acc + IndexOf(Digits, Head(s), 1) - 1)

RECURSIVE IntToStr(_)
IntToStr(n) ==
    IF n < 10 THEN At(Digits, n + 1)
    ELSE IntToStr(n \div 10) \o At(Digits, (n % 10) + 1)

\* min(list) of a non-empty list of integers
MinOf(list) == CHOOSE m \in SeqToSet(list) : \A x \in SeqToSet(list) : m <= x

\* _default_doc_types of both extractors, in dict order
default_doc_types ==
    << [doc_type |-> "testimonios", keywords |-> <<"testimonio", "testigo", "declaración", "relato">>],
       [doc_type |-> "fotografías", keywords |-> <<"foto", "fotografía", "imagen", "pic", "visual">>],
       [doc_type |-> "reportes", keywords |-> <<"reporte", "informe", "report", "documento">>],
       [doc_type |-> "cartas", keywords |-> <<"carta", "carta abierta", "missiva">>],
       [doc_type |-> "actas", keywords |-> <<"acta", "registro", "protocolo">>],
       [doc_type |-> "comunicados", keywords |-> <<"comunicado", "boletín", "aviso">>] >>

topics_patterns ==
    << "(?:sobre|acerca de|de)\\s+([a-záéíóú\\s]+?)(?:\\.|,|$)",
       "(?:principalmente|especialmente)\\s+([a-záéíóú\\s]+?)(?:\\.|,|$)" >>

\* [int(y) for y in re.findall(r'\b(19\d{2}|20\d{2})\b', text)]
YearsIn(text) ==
    Bind(FindAll("\\b(19\\d{2}|20\\d{2})\\b", text), LAMBDA years :
        [k \in 1..Len(years) |-> StrToInt(years[k], 0)])

\* flatten a list of lists
RECURSIVE Flatten(_)
Flatten(lists) == IF lists = <<>> THEN <<>> ELSE Head(lists) \o Flatten(Tail(lists))

\* [m.strip() for m in matches if m.strip()]
StrippedNonEmpty(matches) ==
    LET stripped == [k \in 1..Len(matches) |-> Strip(matches[k])]
    IN  SelectSeq(stripped, LAMBDA m : m # "")

Entities(years, doc_types, topics) ==
    [years |-> years, doc_types |-> doc_types, topics |-> topics,
     has_new_info |-> years # <<>> \/ doc_types # <<>> \/ topics # <<>>]

\* EntityExtractorImpl.extract
EntityExtractorImpl_extract(message) ==
    Bind(Lower(message), LAMBDA message_lower :
    Bind(SelectSeq(default_doc_types, LAMBDA e :
            \E k \in 1..Len(e.keywords) : Contains(message_lower, e.keywords[k])),
         LAMBDA types :
        Entities(YearsIn(message),
                 [k \in 1..Len(types) |-> types[k].doc_type],
                 Flatten([k \in 1..Len(topics_patterns) |->
                            StrippedNonEmpty(FindAll(topics_patterns[k], message_lower))]))))

Max(a, b) == IF a >= b THEN a ELSE b

\* one row of the longest-common-subsequence table of a and b: the row of
\* character ch, from the row before it
RECURSIVE LcsRow(_, _, _, _, _)
LcsRow(ch, b, prev, j, cur) ==
    IF j > Len(b) THEN cur
    ELSE LET cell == IF ch = At(b, j) THEN prev[j] + 1 ELSE Max(prev[j + 1], cur[j])
         IN  IF cell >= 0 THEN LcsRow(ch, b, prev, j + 1, Append(cur, cell)) ELSE cur

RECURSIVE LcsRows(_, _, _, _)
LcsRows(a, b, i, prev) ==
    IF i > Len(a) THEN prev[Len(b) + 1]
    ELSE LET row == LcsRow(At(a, i), b, prev, 1, <<0>>)
         IN  IF Len(row) > 0 THEN LcsRows(a, b, i + 1, row) ELSE 0

Lcs(a, b) == LcsRows(a, b, 1, [j \in 1..(Len(b) + 1) |-> 0])

\* round() of the non-negative rational n/d: halves go to the even integer
RoundHalfEven(n, d) ==
    LET q == n \div d
        r == n % d
    IN  IF 2 * r < d THEN q
        ELSE IF 2 * r > d THEN q + 1
        ELSE IF q % 2 = 0 THEN q ELSE q + 1

\* fuzz.ratio(a, b) of fuzzywuzzy: 100 times the share of the characters of
\* both strings that are matched, rounded; the matched characters are those
\* of a longest common subsequence (the edit-distance ratio).
fuzz_ratio(a, b) ==
    IF Len(a) + Len(b) = 0 THEN 100
    ELSE RoundHalfEven(200 * Lcs(a, b), Len(a) + Len(b))

fuzzy_threshold == 80

common_topics ==
    << "guerra", "dictadura", "ddhh", "derechos", "militares",
       "gobierno", "política", "elecciones", "partido", "persona" >>

\* fuzz.ratio(word, target) >= self.fuzzy_threshold
Close(word, target) == fuzz_ratio(word, target) >= fuzzy_threshold

\* the first of common_topics close to the word, 0 if none is
RECURSIVE FirstTopic(_, _)
FirstTopic(word, t) ==
    IF t > Len(common_topics) THEN 0
    ELSE IF Close(word, common_topics[t]) THEN t ELSE FirstTopic(word, t + 1)

\* FuzzyEntityExtractor.extract
FuzzyEntityExtractor_extract(message) ==
    Bind(Lower(message), LAMBDA message_lower :
    Bind(FindAll("\\b[a-záéíóúñ]{3,}\\b", message_lower), LAMBDA words :
    Bind(SelectSeq(default_doc_types, LAMBDA e :
            \E k \in 1..Len(e.keywords) : \E w \in 1..Len(words) :
                Close(words[w], e.keywords[k])),
         LAMBDA types :
    Bind(SelectSeq([w \in 1..Len(words) |-> FirstTopic(words[w], 1)], LAMBDA t : t > 0),
         LAMBDA topical :
        Entities(YearsIn(message_lower),
                 [k \in 1..Len(types) |-> types[k].doc_type],
                 [k \in 1..Len(topical) |-> common_topics[topical[k]]])))))

(***************************************************************************)
(* Intention detection (services/conversation.IntentionDetector)           *)
(***************************************************************************)

unsatisfied_patterns ==
    << "\\b(no encuentro|no está|falta|no sirve|no es|otro|diferente|otra cosa)\\b",
       "\\b(no\\s+son|no\\s+me|estos\\s+no|eso\\s+no)\\b",
       "\\b(en realidad|más bien|en lugar de|debería|preferir)\\b",
       "\\bno\\s+(es|está|me|sirve)",
       "\\b(hm|meh|nah|nope)\\b",
       "\\b(espera|wait|no|eso no)\\b" >>

satisfied_patterns ==
    << "\\b(gracias|thank|perfecto|excelente|genial|justo|esto es|exacto|bien|ok)\\b",
       "\\bme sirve\\b",
       "\\b(listo|done|bueno)\\b" >>

\* detect with the satisfied patterns tested before the unsatisfied ones
detect_SatisfiedFirst(message) ==
    Bind(Strip(Lower(message)), LAMBDA message_lower :
        IF AnySearch(satisfied_patterns, message_lower) THEN "satisfied"
        ELSE IF AnySearch(unsatisfied_patterns, message_lower) THEN "unsatisfied"
        ELSE IF EntityExtractorImpl_extract(message).has_new_info THEN "refinement"
        ELSE "unsatisfied")

\* IntentionDetector.detect
detect(message) ==
    Bind(Strip(Lower(message)), LAMBDA message_lower :
        IF AnySearch(unsatisfied_patterns, message_lower) THEN "unsatisfied"
        ELSE IF AnySearch(satisfied_patterns, message_lower) THEN "satisfied"
        ELSE IF EntityExtractorImpl_extract(message).has_new_info THEN "refinement"
        ELSE "unsatisfied")

search_indicators ==
    << "\\b(busco|buscaba|necesito|quiero|me gustaría|dime|muestra|encuentra|busca)\\b",
       "\\b(información|info|documentos|fotografías|fotos|archivos|reportes)\\b",
       "\\b(sobre|relacionado\\s+con|acerca\\s+de|de)\\s+",
       "\\b(guerra|dictadura|militares|gobierno|partido|organización|persona)\\b",
       "\\d{4}(?:\\s*(?:-|a)\\s*\\d{4})?" >>

\* Variant of has_explicit_search that looks at the search indicators only.
has_explicit_search_IndicatorsOnly(message) ==
    AnySearch(search_indicators, Strip(Lower(message)))

\* IntentionDetector.has_explicit_search
has_explicit_search(message) ==
    \/ AnySearch(search_indicators, Strip(Lower(message)))
    \/ EntityExtractorImpl_extract(message).has_new_info

greeting_patterns ==
    << "^(hola|hello|hi|hey|ola)\\s*,?\\s*",
       "^(buenos|buenas)\\s+(días|dia|tardes|tarde|noches|noche)\\s*,?\\s*",
       "^saludos\\s*,?\\s*",
       "^(qué|que)\\s+tal\\s*,?\\s*",
       "^solo\\s+quería\\s+saludar\\s*,?\\s*" >>

\* for pattern in patterns: cleaned = re.sub(pattern, '', cleaned); the
\* text is lower case already, so re.IGNORECASE changes nothing
RECURSIVE SubEach(_, _, _)
SubEach(patterns, k, cleaned) ==
    IF k > Len(patterns) THEN cleaned
    ELSE SubEach(patterns, k + 1, SubEmpty(patterns[k], cleaned))

\* IntentionDetector.remove_greetings
remove_greetings(message) ==
    Bind(Strip(SubEach(greeting_patterns, 1, Strip(Lower(message)))), LAMBDA cleaned :
        IF cleaned # "" THEN cleaned ELSE message)

(***************************************************************************)
(* Follow-up messages (api_chatbot.handle_follow_up_message)               *)
(***************************************************************************)

\* the replies of the two branches, named by their first sentence (without
\* the emoji)
SatisfiedReply == "¡Excelente! Me alegra haber encontrado lo que buscabas."
UnsatisfiedReply == "Entiendo que no encontraste lo que buscabas."
NoReply == "<None>"

\* query_parts of handle_follow_up_message: the topics, the earliest year and
\* the document types of the extracted entities
QueryParts_WithoutYears(entities) == entities.topics \o entities.doc_types
QueryParts(entities) ==
    entities.topics
    \o (IF entities.years # <<>> THEN <<IntToStr(MinOf(entities.years))>> ELSE <<>>)
    \o entities.doc_types

\* handle_follow_up_message: (should_search, new_query, branch_response);
\* the session argument is not read
handle_follow_up_message(query) ==
    Bind(remove_greetings(query), LAMBDA cleaned_query :
    Bind(has_explicit_search(cleaned_query), LAMBDA has_search :
    Bind(detect(cleaned_query), LAMBDA intention :
        IF ~has_search /\ intention = "satisfied"
        THEN [should_search |-> FALSE, new_query |-> NoneQuery, response |-> SatisfiedReply]
        ELSE IF ~has_search /\ intention = "unsatisfied"
        THEN [should_search |-> FALSE, new_query |-> NoneQuery, response |-> UnsatisfiedReply]
        ELSE
        Bind(QueryParts(FuzzyEntityExtractor_extract(cleaned_query)), LAMBDA query_parts :
            [should_search |-> TRUE,
             new_query |-> IF query_parts # <<>> THEN Join(" ", query_parts)
                           ELSE cleaned_query,
             response |-> NoReply]))))

(***************************************************************************)
(* Date ranges (services/conversation.DateRangeExtractor)                  *)
(***************************************************************************)

\* DateRangeExtractor.PERIOD_MAPPINGS: the items of the dict, in order, as
\* <<period, start, end>>
PERIOD_MAPPINGS ==
    << <<"gobierno de pinochet", 1973, 1990>>,
       <<"dictadura militar", 1973, 1990>>,
       <<"dictadura", 1973, 1990>>,
       <<"regimen militar", 1973, 1990>>,
       <<"gobierno de aylwin", 1990, 1994>>,
       <<"transicion", 1990, 1994>>,
       <<"unidad popular", 1970, 1973>>,
       <<"gobierno de allende", 1970, 1973>>,
       <<"golpe de estado", 1973, 1973>>,
       <<"golpe", 1973, 1973>>,
       <<"11 de septiembre", 1973, 1973>>,
       <<"plebiscito", 1988, 1988>>,
       <<"campana del no", 1988, 1988>> >>

\* the keys of DateRangeExtractor.DECADE_PATTERNS, in order; both resolvers
\* are m -> (1900 + int(m.group(1)), 1900 + int(m.group(1)) + 9)
DECADE_PATTERNS ==
    << "(?:década|decada)\\s+(?:de\\s+)?(?:los\\s+)?(\\d{2})",
       "(?:años|anos)\\s+(\\d{2})" >>

\* list(range(start, end + 1))
YearRange(start, end) == [k \in 1..(end - start + 1) |-> start + k - 1]

NoRange == <<>>
NoPeriod == "<None>"

\* re.search(p, s): the first match, NoMatch if there is none
FirstMatch(p, s) ==
    Bind(MatchesFrom(Compile(p), s, 0), LAMBDA ms :
        IF ms = <<>> THEN NoMatch ELSE ms[1])

\* m.group(1) of a match in s
Group1(s, m) == Slice(s, m.g1[1] + 1, m.g1[2])

\* the range step of extract: re.search(r'entre\s+(\d{4})\s+y\s+(\d{4})');
\* group 2 is the last four characters of the match
WithExplicitRange(result, message_lower) ==
    Bind(FirstMatch("entre\\s+(\\d{4})\\s+y\\s+(\\d{4})", message_lower), LAMBDA m :
        IF m = NoMatch THEN result
        ELSE Bind(StrToInt(Group1(message_lower, m), 0), LAMBDA start :
             Bind(StrToInt(Slice(message_lower, m.end - 3, m.end), 0), LAMBDA end :
                 [result EXCEPT !.years = YearRange(start, end),
                                !.date_range = <<start, end>>])))

\* the body of the period loop for a period found in the message
SetPeriod(result, period) ==
    [result EXCEPT !.date_range = <<period[2], period[3]>>,
                   !.period_name = period[1],
                   !.years = IF @ = <<>> THEN YearRange(period[2], period[3]) ELSE @]

\* the period loop of extract from the k-th item on: the first period that
\* occurs in the message sets the range, and the loop ends
RECURSIVE WithPeriod(_, _, _)
WithPeriod(result, message_lower, k) ==
    IF k > Len(PERIOD_MAPPINGS) THEN result
    ELSE IF Contains(message_lower, PERIOD_MAPPINGS[k][1])
         THEN SetPeriod(result, PERIOD_MAPPINGS[k])
         ELSE WithPeriod(result, message_lower, k + 1)

\* the decade loop of extract from the k-th pattern on
RECURSIVE WithDecade(_, _, _)
WithDecade(result, message_lower, k) ==
    IF k > Len(DECADE_PATTERNS) THEN result
    ELSE Bind(FirstMatch(DECADE_PATTERNS[k], message_lower), LAMBDA m :
            IF m = NoMatch THEN WithDecade(result, message_lower, k + 1)
            ELSE Bind(1900 + StrToInt(Group1(message_lower, m), 0), LAMBDA start :
                    [result EXCEPT !.date_range = <<start, start + 9>>,
                                   !.years = IF @ = <<>> THEN YearRange(start, start + 9)
                                             ELSE @]))

\* DateRangeExtractor.extract (doc_types and topics stay empty)
DateRangeExtractor_extract(message) ==
    Bind(Lower(message), LAMBDA message_lower :
    Bind(WithDecade(
            WithPeriod(
               WithExplicitRange([years |-> YearsIn(message_lower), date_range |-> NoRange,
                                  period_name |-> NoPeriod],
                                 message_lower),
               message_lower, 1),
            message_lower, 1),
         LAMBDA result :
            [years |-> result.years, date_range |-> result.date_range,
             period_name |-> result.period_name,
             has_new_info |-> result.years # <<>> \/ result.date_range # NoRange]))

(***************************************************************************)
(* Query expansion (services/conversation.SynonymExpander)                 *)
(***************************************************************************)

\* SynonymExpander._default_synonyms(): the dict as the list of its items, in
\* insertion order
default_synonyms ==
    << <<"fotos", <<"fotografías", "imágenes", "retratos", "visuales">> >>,
       <<"foto", <<"fotografía", "imagen", "retrato">> >>,
       <<"cartas", <<"correspondencia", "misivas", "escritos", "epístolas">> >>,
       <<"carta", <<"correspondencia", "misiva", "escrito">> >>,
       <<"videos", <<"grabaciones", "audiovisuales", "filmaciones">> >>,
       <<"video", <<"grabación", "audiovisual", "filmación">> >>,
       <<"documentos", <<"archivos", "registros", "expedientes">> >>,
       <<"documento", <<"archivo", "registro", "expediente">> >>,
       <<"informes", <<"reportes", "memorandos", "notas">> >>,
       <<"informe", <<"reporte", "memorando", "nota">> >>,
       <<"dictadura", <<"régimen militar", "gobierno militar", "pinochet">> >>,
       <<"golpe", <<"golpe de estado", "11 de septiembre", "pronunciamiento">> >>,
       <<"derechos humanos", <<"ddhh", "violaciones", "represión", "víctimas">> >>,
       <<"plebiscito", <<"consulta", "referéndum", "votación 1988">> >>,
       <<"transición", <<"retorno a la democracia", "democratización">> >>,
       <<"aylwin", <<"patricio aylwin", "presidente aylwin">> >>,
       <<"pinochet", <<"augusto pinochet", "general pinochet">> >>,
       <<"allende", <<"salvador allende", "presidente allende">> >>,
       <<"universidad", <<"uah", "alberto hurtado">> >>,
       <<"gobierno", <<"ejecutivo", "administración", "estado">> >>,
       <<"congreso", <<"parlamento", "cámara", "senado">> >> >>

\* SynonymExpander.__init__: synonyms or self._default_synonyms(); an empty
\* dict is falsy and gives the defaults
SynonymExpander(synonyms) ==
    [synonyms |-> IF synonyms = <<>> THEN default_synonyms ELSE synonyms]

\* if expanded not in expansions: expansions.append(expanded)
AppendNew_Always(expansions, expanded) == Append(expansions, expanded)
AppendNew(expansions, expanded) ==
    IF expanded \in SeqToSet(expansions) THEN expansions
    ELSE Append(expansions, expanded)

\* for syn in synonyms: ..., from the k-th synonym of the list on
RECURSIVE ExpandTerm(_, _, _, _, _)
ExpandTerm(query_lower, term, synonyms, k, expansions) ==
    IF k > Len(synonyms) THEN expansions
    ELSE ExpandTerm(query_lower, term, synonyms, k + 1,
                    AppendNew(expansions, Replace(query_lower, term, synonyms[k])))

\* for term, synonyms in self.synonyms.items(): ..., from the t-th item on
RECURSIVE ExpandTerms(_, _, _, _)
ExpandTerms(query_lower, items, t, expansions) ==
    IF t > Len(items) THEN expansions
    ELSE ExpandTerms(query_lower, items, t + 1,
                     IF Contains(query_lower, items[t][1])
                     THEN ExpandTerm(query_lower, items[t][1], items[t][2], 1, expansions)
                     ELSE expansions)

\* SynonymExpander.expand
SynonymExpander_expand(self, query) ==
    ExpandTerms(Lower(query), self.synonyms, 1, <<query>>)

(***************************************************************************)
(* State                                                                   *)
(***************************************************************************)

VARIABLES
    \* normaliser run: the function applied, its input, and the results of
    \* applying it once and then again to its own output
    norm_fn, norm_input, norm_once, norm_twice, norm_pc,
    \* the corpus handed to the strategies (a list of documents)
    corpus,
    \* SearchContext._strategy: a strategy object; for the hybrid strategy
    \* its `strategies` field is HybridSearchStrategy._strategies
    context_strategy,
    \* the arguments and the outcome of the last SearchContext.search call:
    \* searched is "none" before the first call and the strategy's name after
    arg_query, arg_top_k, searched, ret,
    \* the sub-strategy calls the last hybrid search made, in order
    call_log,
    \* the last find_similar call: the comparator's class ("none" before the
    \* first call), its arguments and the pair it returned
    cmp_comparator, cmp_new_docs, cmp_previous_hrefs, cmp_ret,
    \* the global session map (session id -> ConversationSession) and whether
    \* the global tfidf_index was loaded at start-up
    conversation_sessions, tfidf_index,
    \* the last request to /api/chat, the response to it and the search
    \* functions called while it was handled
    chat_request, chat_response, chat_invoked,
    \* the call of one of the functions that are checked on their own: its
    \* name ("none" before the call), its arguments and what it returned
    text_fn, text_args, text_ret,
    \* the chat endpoint under threaded=True: the ConversationSession objects
    \* created so far (an object is known by its position), the dict
    \* conversation_sessions as session id -> object, the local variables and
    \* the position of each request thread, the session ids whose dict entry
    \* or object the last step read or wrote, and the requests received
    heap, session_refs, workers, touched, received,
    \* the GeminiClientProxy object (_enabled, _failure_count), the last call
    \* made on it, the number of API calls that raised in a row since the
    \* last success or reset, and the calls in progress in each thread when
    \* the object is shared by request threads
    gemini, llm_call, failed_in_row, proxy_workers,
    \* the CachingLLMProxy object: _embedding_cache (cache key -> result and
    \* timestamp) and the time datetime.now() shows; the result the wrapped
    \* proxy gave last for each argument triple and when it was stored, and
    \* the last call made on the object
    embedding_cache, clock, stored_results, cache_call,
    \* the EventBus object: _subs (event -> list of handlers), the last
    \* publish call and the handler calls it made, in order
    bus_subs, published, delivered

normVars == <<norm_fn, norm_input, norm_once, norm_twice, norm_pc>>
searchVars == <<corpus, context_strategy, arg_query, arg_top_k, searched, ret, call_log>>
cmpVars == <<cmp_comparator, cmp_new_docs, cmp_previous_hrefs, cmp_ret>>
chatVars == <<conversation_sessions, tfidf_index, chat_request, chat_response, chat_invoked>>
textVars == <<text_fn, text_args, text_ret>>
threadVars == <<heap, session_refs, workers, touched, received>>
proxyVars == <<gemini, llm_call, failed_in_row, proxy_workers>>
cacheVars == <<embedding_cache, clock, stored_results, cache_call>>
busVars == <<bus_subs, published, delivered>>
serviceVars == <<proxyVars, cacheVars, busVars>>
vars == <<normVars, searchVars, cmpVars, chatVars, textVars, threadVars, serviceVars>>
outsideNorm == <<searchVars, cmpVars, chatVars, textVars, threadVars, serviceVars>>
outsideSearch == <<normVars, cmpVars, chatVars, textVars, threadVars, serviceVars>>
outsideCompare == <<normVars, searchVars, chatVars, textVars, threadVars, serviceVars>>
outsideChat == <<normVars, searchVars, cmpVars, textVars, threadVars, serviceVars>>
outsideText == <<normVars, searchVars, cmpVars, chatVars, threadVars, serviceVars>>
outsideThreads == <<normVars, searchVars, cmpVars, chatVars, textVars, serviceVars>>
outsideServices == <<normVars, searchVars, cmpVars, chatVars, textVars, threadVars>>

(***************************************************************************)
(* Bounds and input pools                                                  *)
(***************************************************************************)

\* longest enumerated normaliser input
MaxNormLen == 4
\* most documents in a corpus
MaxDocs == 2
\* largest top_k asked for
MaxTopK == 2
\* most sub-strategies added to a hybrid strategy
MaxStrategies == 2
\* most documents handed to find_similar
MaxNewDocs == 3
\* most searches recorded in the session histories together
MaxSearches == 2
\* most searches a session records in the runs of the SearchContext
MaxRecorded == 1
\* most calls made on a GeminiClientProxy
MaxCalls == 8
\* the cache_ttl_seconds of the checked CachingLLMProxy and the latest time
\* datetime.now() shows, in seconds
cache_ttl_seconds == 2
MaxClock == 3
\* most calls made on a CachingLLMProxy
MaxCacheCalls == 4
\* most subscriptions of an EventBus
MaxSubscriptions == 3

NormAlphabet == {"a", "e", "s", "7", "3", " "}

NormInputs ==
    StringsUpTo(NormAlphabet, MaxNormLen)
    \cup {"Países", "fotos de 1973", "dicta", "pinochet", "DDHH", "cartas"}

RECURSIVE ListsUpTo(_, _)
\* Every list of at most n distinct elements of the set.
ListsUpTo(set, n) ==
    IF n = 0 THEN {<<>>}
    ELSE LET shorter == ListsUpTo(set, n - 1)
         IN  shorter \cup {Append(l, x) : <<l, x>> \in
                              {y \in shorter \X set : y[2] \notin SeqToSet(y[1])}}

Corpora == ListsUpTo(DocPool, MaxDocs)

\* The strategy objects the factory and the API module construct, with each
\* dependency present or absent.
SimpleStrategies ==
    { ExactTitleStrategy, MetadataStrategy, TFIDFStrategy(FALSE), TFIDFStrategy(TRUE),
      SemanticStrategy(TRUE, TRUE), SemanticStrategy(FALSE, TRUE) }

\* The weights create_search_strategy and the API module use, in tenths.
ProductionWeight(strategy) ==
    CASE strategy.kind = "ExactTitleSearch" -> 15
      [] strategy.kind = "MetadataSearch" -> 12
      [] strategy.kind = "TFIDFSearch" -> 10
      [] strategy.kind = "SemanticSearch" -> 13

\* HybridSearchStrategy(): a hybrid strategy object with the given list.
HybridStrategy(strategies) ==
    [kind |-> "HybridSearch", has_index |-> FALSE, has_embedder |-> FALSE,
     has_embeddings |-> FALSE, strategies |-> strategies]

\* A simple strategy object held by the search context.
Simple(strategy) ==
    [kind |-> strategy.kind, has_index |-> strategy.has_index,
     has_embedder |-> strategy.has_embedder,
     has_embeddings |-> strategy.has_embeddings, strategies |-> <<>>]

\* Every similarity table over n documents a string query can meet; a
\* non-string query is rejected by the vectorizer and by the embedder.
AllTables(q, n, values) == IF q = NoneQuery THEN {} ELSE [1..n -> values]

\* The similarity table of the index and of the embeddings the hybrid
\* strategy's sub-strategies are given: fixed by the query and the corpus,
\* here by the number of query words a document's text shares.
IndexTables(q, docs) ==
    IF q = NoneQuery THEN {}
    ELSE {[i \in 1..Len(docs) |->
            IF Analyzed(q, docs[i]).shared = 0 THEN 1
            ELSE IF Analyzed(q, docs[i]).shared = 1 THEN 30 ELSE 60]}

EmbeddingTables(q, docs) ==
    IF q = NoneQuery THEN {}
    ELSE {[i \in 1..Len(docs) |->
            IF docs[i].href = "/a3" THEN NoEmbedding
            ELSE IF Analyzed(q, docs[i]).shared = 0 THEN 30 ELSE 60]}

(***************************************************************************)
(* Document search of the chat endpoint (api_chatbot.py)                   *)
(***************************************************************************)

\* set(a.split()) & set(b.split())
CommonWords(a, b) == SeqToSet(Split(a)) \cap SeqToSet(Split(b))

\* the score search_exact_title gives a document, 0 when none of its rules
\* applies; 0.6 + (common / words) * 0.2 is (3 * words + common) / (5 * words)
\* A document of the JSON file without the key 'title', and one whose
\* title is null.
MissingTitle == "<missing>"
NullTitle == "<null>"

\* doc.get('title', '')
TitleOrDefault(doc) == IF doc.title = MissingTitle THEN "" ELSE doc.title

exact_title_score(query_lower, doc) ==
    LET title == Lower(TitleOrDefault(doc))
        href == Lower(doc.href)
        common == CommonWords(query_lower, title)
        query_words == SeqToSet(Split(query_lower))
    IN  IF query_lower = title THEN Rat(100, 100)
        ELSE IF Contains(title, query_lower) THEN Rat(90, 100)
        ELSE IF title # "" /\ Contains(query_lower, title) THEN Rat(85, 100)
        ELSE IF \/ Contains(href, Replace(query_lower, " ", "-"))
                \/ Contains(href, Replace(query_lower, " ", ""))
             THEN Rat(80, 100)
        ELSE IF Cardinality(common) >= 3
             THEN Rat(3 * Cardinality(query_words) + Cardinality(common),
                      5 * Cardinality(query_words))
        ELSE Rat(0, 1)

\* search_exact_title(query, top_k) over the global `documents`
search_exact_title(query, top_k, docs) ==
    LET query_lower == Strip(Lower(query))
        entry(i) ==
            LET score == exact_title_score(query_lower, docs[i])
            IN  IF RatLess(Rat(1, 2), score)
                THEN <<Scored(docs[i], score, "search_exact_title", "exact_title")>>
                ELSE <<>>
        results == SelectSeq2([i \in 1..Len(docs) |-> entry(i)], 1)
    IN  Take(SortDescending(results), top_k)

\* the least similarity search_with_tfidf keeps, in hundredths
MinSimilarity == 1

\* search_with_tfidf(query, top_k): nothing without an index or when the
\* vectorizer or the cosine raises; else the top_k most similar documents
\* above the threshold, most similar first
search_with_tfidf(has_index, oracle, top_k, docs) ==
    IF ~has_index \/ oracle.outcome # "ok" THEN <<>>
    ELSE LET top_indices == Take(oracle.order, top_k)
             entry(j) ==
                LET idx == top_indices[j]
                IN  IF idx <= Len(docs) /\ oracle.sims[idx] > MinSimilarity
                    THEN <<Scored(docs[idx], Rat(oracle.sims[idx], 100),
                                  "search_with_tfidf", "")>>
                    ELSE <<>>
         IN  SelectSeq2([j \in 1..Len(top_indices) |-> entry(j)], 1)

\* search_by_keywords(query, top_k)
search_by_keywords(query, top_k, docs) ==
    LET query_lower == Lower(query)
        entry(i) ==
            LET title_lower == Lower(docs[i].title)
                score == Cardinality(CommonWords(query_lower, title_lower))
                         + (IF Contains(title_lower, query_lower) THEN 10 ELSE 0)
            IN  IF score > 0
                THEN <<Scored(docs[i], Rat(score, 1), "search_by_keywords", "")>>
                ELSE <<>>
        scored_docs == SelectSeq2([i \in 1..Len(docs) |-> entry(i)], 1)
    IN  Take(SortDescending(scored_docs), top_k)

\* The similarity tables the loaded index can give for a normalized query:
\* here one table, fixed by the number of words the title shares with it.
TitleSimilarities(n, docs) ==
    {[i \in 1..Len(docs) |->
        LET shared == Cardinality(CommonWords(n, Lower(docs[i].title)))
        IN  IF shared = 0 THEN 1 ELSE IF shared = 1 THEN 30 ELSE 60]}

\* the documents the chat endpoint searches: each has a title and an href
ChatCorpus ==
    << Doc("Carta de Aylwin", "", "/a1", <<"cartas", "aylwin">>, <<>>, <<>>),
       Doc("Fotos de la dictadura", "", "/fotos-dictadura", <<"fotografías">>, <<>>, <<>>),
       Doc("Cartas", "", "/a3", <<>>, <<>>, <<"carta">>) >>

\* top_k of the chat endpoint's search_documents call
ChatTopK == 6

\* the texts a chat request may carry
MessagePool ==
    { "", "gracias", " Hola ", "adiós", "ayuda", "ok",
      "Carta de Aylwin", "fotos dictadura 1973", "matrícula",
      "no me sirve", "me sirve", "hola, busco cartas de 1980" }

\* Tables of the string functions over the texts the requests can carry,
\* each computed once by the function it tabulates.
Lookup(table, key) == (CHOOSE e \in table : e[1] = key)[2]
Tabulated(table, key) == \E e \in table : e[1] = key

Queries == {Strip(m) : m \in MessagePool} \ {""}
ConversationTypeTable == {<<q, detect_conversation_type(q)>> : q \in Queries}
FollowUpTable == {<<q, handle_follow_up_message(q)>> : q \in Queries}
SearchQueries ==
    Queries \cup {e[2].new_query : e \in {f \in FollowUpTable : f[2].should_search}}
ExactTitleTable ==
    {<<q, search_exact_title(q, ChatTopK, ChatCorpus)>> : q \in SearchQueries}
NormalizedTable == {<<q, normalize_query(q)>> : q \in SearchQueries}
KeywordTable ==
    {<<n, search_by_keywords(n, ChatTopK, ChatCorpus)>> :
        n \in {e[2] : e \in NormalizedTable}}
IndexTable ==
    {<<n, TitleSimilarities(n, ChatCorpus)>> : n \in {e[2] : e \in NormalizedTable}}

ConversationTypeOf(q) == Lookup(ConversationTypeTable, q)

FollowUpOf(q) == Lookup(FollowUpTable, q)

ExactTitleOfQuery(q, top_k, docs) ==
    IF top_k = ChatTopK /\ docs = ChatCorpus /\ Tabulated(ExactTitleTable, q)
    THEN Lookup(ExactTitleTable, q) ELSE search_exact_title(q, top_k, docs)

NormalizedOf(q) == Lookup(NormalizedTable, q)

KeywordsOf(n, top_k, docs) ==
    IF top_k = ChatTopK /\ docs = ChatCorpus /\ Tabulated(KeywordTable, n)
    THEN Lookup(KeywordTable, n) ELSE search_by_keywords(n, top_k, docs)

\* the similarity tables the loaded index can give for a normalized query
ChatIndexTables(n, docs) ==
    IF docs = ChatCorpus /\ Tabulated(IndexTable, n)
    THEN Lookup(IndexTable, n) ELSE TitleSimilarities(n, docs)

\* search_exact_title raises at doc.get('title', '').lower() for a null
\* title; search_by_keywords raises at doc['title'] for a missing title and
\* at .lower() for a null one.
ExactTitleRaises(docs) == \E i \in 1..Len(docs) : docs[i].title = NullTitle

KeywordsRaise(docs) == \E i \in 1..Len(docs) : docs[i].title \in {MissingTitle, NullTitle}

\* What search_documents did: the results it returned, the search functions
\* it called, and whether it returned from its except block.
Found(results, invoked, caught) ==
    [results |-> results, invoked |-> invoked, caught |-> caught]

\* Variant of search_documents that goes on to the keywords whenever the
\* exact-title search found nothing.
search_documents_WithoutIndex(query, top_k, has_index, oracle, docs) ==
    IF ExactTitleRaises(docs) THEN Found(<<>>, <<"search_exact_title">>, TRUE)
    ELSE
    Bind(ExactTitleOfQuery(query, top_k, docs), LAMBDA exact_results :
        IF exact_results # <<>>
        THEN Found(exact_results, <<"search_exact_title">>, FALSE)
        ELSE IF KeywordsRaise(docs)
        THEN Found(<<>>, <<"search_exact_title", "search_by_keywords">>, TRUE)
        ELSE Found(KeywordsOf(NormalizedOf(query), top_k, docs),
                   <<"search_exact_title", "search_by_keywords">>, FALSE))

\* search_documents(query, top_k): the cascade exact title, TF-IDF, keywords
\* inside try/except Exception, which returns [], [].  The suggestions it
\* also returns only feed the reply text and are left out.
search_documents(query, top_k, has_index, oracle, docs) ==
    IF ExactTitleRaises(docs) THEN Found(<<>>, <<"search_exact_title">>, TRUE)
    ELSE
    Bind(ExactTitleOfQuery(query, top_k, docs), LAMBDA exact_results :
    Bind(search_with_tfidf(has_index, oracle, top_k, docs), LAMBDA tfidf_results :
        IF exact_results # <<>>
        THEN Found(exact_results, <<"search_exact_title">>, FALSE)
        ELSE IF has_index /\ tfidf_results # <<>>
        THEN Found(tfidf_results, <<"search_exact_title", "search_with_tfidf">>, FALSE)
        ELSE Bind(<<"search_exact_title">>
                  \o (IF has_index THEN <<"search_with_tfidf">> ELSE <<>>)
                  \o <<"search_by_keywords">>, LAMBDA invoked :
                 IF KeywordsRaise(docs) THEN Found(<<>>, invoked, TRUE)
                 ELSE Found(KeywordsOf(NormalizedOf(query), top_k, docs), invoked, FALSE))))

(***************************************************************************)
(* Sessions and the chat endpoint (api_chatbot.chat)                       *)
(***************************************************************************)

\* ConversationSession.__init__ (created_at and the never-written
\* user_satisfaction are left out)
NewSession == [last_query |-> NoneQuery, last_results |-> <<>>, search_history |-> <<>>]

\* ConversationSession.add_search (the timestamp of the entry is left out)
add_search_WithoutHistory(session, query, results) ==
    [session EXCEPT !.last_query = query, !.last_results = results]
add_search(session, query, results) ==
    [last_query |-> query,
     last_results |-> results,
     search_history |->
        Append(session.search_history,
               [query |-> query,
                results |-> [k \in 1..Len(results) |->
                               [href |-> results[k].doc.href,
                                title |-> results[k].doc.title]]])]

\* ConversationSession.is_follow_up
is_follow_up(session) == Len(session.search_history) >= 1

\* get_or_create_session: the session map afterwards
get_or_create_session(sessions, session_id) ==
    IF session_id \in DOMAIN sessions THEN sessions
    ELSE [i \in DOMAIN sessions \cup {session_id} |->
            IF i = session_id THEN NewSession ELSE sessions[i]]

\* the conversation types chat answers without searching
CasualTypes_WithoutSmalltalk == {"greeting", "farewell", "gratitude", "help"}

CasualTypes == {"greeting", "farewell", "gratitude", "help", "smalltalk"}

\* time_greeting of generate_conversational_response, by the hour in Santiago
TimeGreetings == {"Buenos días", "Buenas tardes", "Buenas noches"}

\* generate_conversational_response: the replies random.choice picks from,
\* each named by its first sentence (without the emoji)
CannedReplies(conversation_type) ==
    CASE conversation_type = "greeting" ->
            {"¡" \o g \o "! Soy el asistente del Archivo Patrimonial UAH." : g \in TimeGreetings}
            \cup {"¡Hola! Archivo Patrimonial UAH a tu servicio."}
            \cup {g \o "! Bienvenido al Archivo Patrimonial." : g \in TimeGreetings}
      [] conversation_type = "farewell" ->
            {"¡Hasta pronto! Vuelve cuando quieras.", "¡Adiós! Fue un gusto ayudarte.",
             "¡Nos vemos! Aquí estaré."}
      [] conversation_type = "gratitude" ->
            {"¡De nada! ¿Algo más?", "¡Con gusto! ¿Otra búsqueda?", "¡Me alegra ayudar!"}
      [] conversation_type = "help" ->
            {"Archivo Patrimonial UAH", "Soy tu asistente del Archivo Patrimonial."}
      [] conversation_type = "smalltalk" ->
            {"¡Buena pregunta!", "Soy el chatbot del Archivo Patrimonial UAH."}
      [] OTHER -> {}

administrative_keywords ==
    << "matricula", "matrícula", "inscripción", "inscripcion",
       "horario", "horarios", "clases", "notas", "calificaciones",
       "malla", "curricular", "admisión", "admision", "postular",
       "aranceles", "becas", "pago", "cuota", "arancel",
       "profesor", "docente", "contacto universidad", "email uah",
       "carrera", "carreras", "postgrado", "magister", "magíster",
       "como me inscribo", "donde queda la universidad", "telefono uah" >>

OutOfScopeReply == "Esta consulta está fuera del alcance del Archivo Patrimonial."
NoResultsReply == "No encontré resultados para esa búsqueda."
ListingReply == "Encontré estos documentos relevantes:"
GeneratedReply == "<generated>"
NextHelpReply == "¿En qué más te puedo ayudar?"

\* generate_response: the reply texts it can return, named by their first
\* sentence; the text the generation capability writes is GeneratedReply,
\* and the listing is what is returned when it is unavailable or fails
generate_response(query, context_docs) ==
    IF context_docs = <<>>
    THEN IF \E k \in 1..Len(administrative_keywords) :
                Contains(Lower(query), administrative_keywords[k])
         THEN {OutOfScopeReply} ELSE {NoResultsReply}
    ELSE {GeneratedReply, ListingReply}

Request(method, query, session_id) ==
    [method |-> method, query |-> query, session_id |-> session_id]

Response(status, conversation_type, reply, docs) ==
    [status |-> status, conversation_type |-> conversation_type,
     reply |-> reply, documents |-> docs]

NoResponse == Response(0, "", "", <<>>)

\* what one request leaves behind: the response, the session map and the
\* search functions that were called
Outcome(response, sessions, called) ==
    [response |-> response, sessions |-> sessions, invoked |-> called]

\* what search_with_tfidf can be answered for a query: the index, if one
\* is loaded, raises or gives similarities and an order
IndexAnswers(has_index, normalized_query, docs) ==
    IF has_index THEN TfidfOracles(ChatIndexTables(normalized_query, docs))
    ELSE {NoOracle}

\* the search branch of chat(): search_documents, generate_response and
\* session.add_search, for each answer the index can give
chat_search(query, conversation_type, session_id, created, has_index, docs) ==
    UNION
    {Bind(search_documents(query, ChatTopK, has_index, oracle, docs), LAMBDA found :
        {Outcome(Response(200, conversation_type, reply, found.results),
                 [created EXCEPT
                    ![session_id] = add_search(created[session_id], query, found.results)],
                 <<"search_documents">> \o found.invoked) :
            reply \in generate_response(query, found.results)}) :
       oracle \in IndexAnswers(has_index, NormalizedOf(query), docs)}

\* the follow-up branch of chat(): the reply of handle_follow_up_message, or
\* a search for the query it built
chat_follow_up(query, conversation_type, session_id, created, has_index, docs) ==
    Bind(FollowUpOf(query), LAMBDA follow_up :
        IF follow_up.response # NoReply
        THEN {Outcome(Response(200, "follow_up_branch", follow_up.response, <<>>),
                      created, <<>>)}
        ELSE IF ~follow_up.should_search
        THEN {Outcome(Response(200, "follow_up_satisfied", NextHelpReply, <<>>),
                      created, <<>>)}
        ELSE chat_search(follow_up.new_query, conversation_type, session_id, created,
                         has_index, docs))

\* chat(): the outcomes of one request, given the session map, whether the
\* TF-IDF index is loaded and the corpus
chat(request, sessions, has_index, docs) ==
    IF request.method = "OPTIONS"
    THEN {Outcome(Response(200, "", "", <<>>), sessions, <<>>)}
    ELSE IF request.query = NoneQuery
    THEN {Outcome(Response(500, "", "", <<>>), sessions, <<>>)}
    ELSE IF Strip(request.query) = ""
    THEN {Outcome(Response(400, "", "", <<>>), sessions, <<>>)}
    ELSE
    Bind(Strip(request.query), LAMBDA query :
    Bind(get_or_create_session(sessions, request.session_id), LAMBDA created :
    Bind(ConversationTypeOf(query), LAMBDA conversation_type :
        IF conversation_type \in CasualTypes
        THEN {Outcome(Response(200, conversation_type, reply, <<>>), created, <<>>) :
                reply \in CannedReplies(conversation_type)}
        ELSE IF is_follow_up(created[request.session_id])
        THEN chat_follow_up(query, conversation_type, request.session_id, created,
                            has_index, docs)
        ELSE chat_search(query, conversation_type, request.session_id, created,
                         has_index, docs))))

(***************************************************************************)
(* Normaliser runs                                                         *)
(***************************************************************************)

NormIdle ==
    /\ norm_fn = "none" /\ norm_input = "" /\ norm_once = "" /\ norm_twice = ""
    /\ norm_pc = "idle"

ContextIdle ==
    /\ context_strategy = HybridStrategy(<<>>)
    /\ arg_query = "" /\ arg_top_k = 0 /\ searched = "none" /\ ret = Returned(<<>>)
    /\ call_log = <<>>

SearchIdle == corpus = <<>> /\ ContextIdle

NoSessions == [i \in {} |-> NewSession]

ChatIdle ==
    /\ conversation_sessions = NoSessions /\ tfidf_index = FALSE
    /\ chat_request = Request("", "", "") /\ chat_response = NoResponse
    /\ chat_invoked = <<>>

CompareIdle ==
    /\ cmp_comparator = "none" /\ cmp_new_docs = <<>> /\ cmp_previous_hrefs = {}
    /\ cmp_ret = [truly_new |-> <<>>, similar |-> <<>>]

TextIdle == text_fn = "none" /\ text_args = <<>> /\ text_ret = <<>>

ThreadsIdle ==
    /\ heap = <<>> /\ session_refs = <<>> /\ workers = <<>>
    /\ touched = {} /\ received = 0

ProxyIdle ==
    /\ gemini = <<>> /\ llm_call = <<>> /\ failed_in_row = 0 /\ proxy_workers = <<>>

CacheIdle ==
    /\ embedding_cache = <<>> /\ clock = 0 /\ stored_results = <<>> /\ cache_call = <<>>

BusIdle == bus_subs = <<>> /\ published = <<>> /\ delivered = <<>>

ServicesIdle == ProxyIdle /\ CacheIdle /\ BusIdle

NormApply(fn, x) ==
    IF fn = "normalize_query" THEN normalize_query(x) ELSE normalize_text(x)

InitNorm ==
    /\ norm_fn \in {"normalize_query", "normalize_text"}
    /\ norm_input \in NormInputs
    /\ norm_once = "" /\ norm_twice = ""
    /\ norm_pc = "start"
    /\ SearchIdle /\ CompareIdle /\ ChatIdle /\ TextIdle /\ ThreadsIdle /\ ServicesIdle

\* x1 = normalize(x)
Normalize ==
    /\ norm_pc = "start"
    /\ norm_once' = NormApply(norm_fn, norm_input)
    /\ norm_pc' = "once"
    /\ UNCHANGED <<norm_fn, norm_input, norm_twice, outsideNorm>>

\* x2 = normalize(x1)
NormalizeAgain ==
    /\ norm_pc = "once"
    /\ norm_twice' = NormApply(norm_fn, norm_once)
    /\ norm_pc' = "twice"
    /\ UNCHANGED <<norm_fn, norm_input, norm_once, outsideNorm>>

NextNorm == Normalize \/ NormalizeAgain

SpecNorm == InitNorm /\ [][NextNorm]_vars

(***************************************************************************)
(* Searches through the SearchContext                                      *)
(***************************************************************************)

InitSearch ==
    /\ corpus \in Corpora
    /\ context_strategy = HybridStrategy(<<>>)
    /\ arg_query = "" /\ arg_top_k = 0 /\ searched = "none" /\ ret = Returned(<<>>)
    /\ call_log = <<>>
    /\ NormIdle /\ CompareIdle /\ ChatIdle /\ TextIdle /\ ThreadsIdle /\ ServicesIdle

\* The record of the last call is dropped when the strategy is reconfigured.
ForgetCall ==
    /\ arg_query' = "" /\ arg_top_k' = 0 /\ searched' = "none" /\ ret' = Returned(<<>>)
    /\ call_log' = <<>>

\* SearchContext.set_strategy
SetStrategy ==
    /\ \E s \in {Simple(x) : x \in SimpleStrategies} \cup {HybridStrategy(<<>>)} :
          context_strategy' = s
    /\ ForgetCall
    /\ UNCHANGED <<corpus, outsideSearch>>

\* HybridSearchStrategy.add_strategy
AddStrategy ==
    /\ context_strategy.kind = "HybridSearch"
    /\ Len(context_strategy.strategies) < MaxStrategies
    /\ \E s \in SimpleStrategies :
          context_strategy' =
              [context_strategy EXCEPT
                  !.strategies = Append(@, [strategy |-> s, weight |-> ProductionWeight(s)])]
    /\ ForgetCall
    /\ UNCHANGED <<corpus, outsideSearch>>

\* SearchContext.search with a non-composite strategy
SearchSimple ==
    /\ context_strategy.kind # "HybridSearch"
    /\ \E q \in QueryArgs : \E k \in 0..MaxTopK :
       \E oracle \in OraclesFor(context_strategy,
                                AllTables(q, Len(corpus), SimValues),
                                AllTables(q, Len(corpus), SimValues \cup {NoEmbedding})) :
          /\ arg_query' = q
          /\ arg_top_k' = k
          /\ ret' = StrategySearch(context_strategy, oracle, q, corpus, k)
          /\ corpus' = DocumentsAfterSearch(context_strategy, oracle, q, corpus, k)
    /\ searched' = context_strategy.kind
    /\ call_log' = <<>>
    /\ UNCHANGED <<context_strategy, outsideSearch>>

\* The oracle values of the sub-strategies of a hybrid search.
HybridOracles(strategies, q, docs) ==
    LET of(i) == OraclesFor(strategies[i].strategy,
                            IndexTables(q, docs), EmbeddingTables(q, docs))
    IN  {o \in [1..Len(strategies) -> UNION {of(i) : i \in 1..Len(strategies)}] :
            \A i \in 1..Len(strategies) : o[i] \in of(i)}

\* SearchContext.search with the hybrid strategy
SearchHybrid ==
    /\ context_strategy.kind = "HybridSearch"
    /\ \E q \in QueryArgs : \E k \in 0..MaxTopK :
       \E oracles \in HybridOracles(context_strategy.strategies, q, corpus) :
       \E res \in {HybridSearch(context_strategy.strategies, oracles, q, corpus, k)} :
              /\ arg_query' = q
              /\ arg_top_k' = k
              /\ ret' = [raised |-> res.raised, docs |-> res.docs]
              /\ call_log' = res.calls
              /\ corpus' = DocumentsAfterHybrid(context_strategy.strategies, oracles,
                                                res.calls, q, corpus)
    /\ searched' = "HybridSearch"
    /\ UNCHANGED <<context_strategy, outsideSearch>>

NextSearch == SetStrategy \/ AddStrategy \/ SearchSimple \/ SearchHybrid

SpecSearch == InitSearch /\ [][NextSearch]_vars

(***************************************************************************)
(* Searches whose results a session records: the searches of the           *)
(* SearchContext and ConversationSession.add_search on the list returned.  *)
(***************************************************************************)

\* The id under which the session of these runs is kept.
FrameSession == "s1"

\* The corpora of these runs, by the hrefs of their documents.
FrameCorpora ==
    {c \in Corpora :
        [i \in 1..Len(c) |-> c[i].href] \in {<<"/a1", "/a2">>, <<"/a3", "/a1">>}}

InitFrame ==
    /\ corpus \in FrameCorpora
    /\ ContextIdle
    /\ conversation_sessions = [i \in {FrameSession} |-> NewSession]
    /\ tfidf_index = FALSE
    /\ chat_request = Request("", "", "") /\ chat_response = NoResponse
    /\ chat_invoked = <<>>
    /\ NormIdle /\ CompareIdle /\ TextIdle /\ ThreadsIdle /\ ServicesIdle

\* The session of the run can still record a search.
Recording ==
    Len(conversation_sessions[FrameSession].search_history) < MaxRecorded

\* session.add_search(query, results) on the list the last search returned;
\* it reads the href and the title of every entry and writes to the session
\* only, so the documents are assigned no key.
AddSearch ==
    /\ searched # "none" /\ ~ret.raised
    /\ Recording
    /\ conversation_sessions' =
          [conversation_sessions EXCEPT
              ![FrameSession] = add_search(@, arg_query, ret.docs)]
    /\ corpus' = AssignKeys(corpus, {}, {})
    /\ UNCHANGED <<context_strategy, arg_query, arg_top_k, searched, ret, call_log>>
    /\ UNCHANGED <<tfidf_index, chat_request, chat_response, chat_invoked>>
    /\ UNCHANGED <<normVars, cmpVars, textVars, threadVars, serviceVars>>

NextFrame ==
    \/ Recording /\ (SetStrategy \/ AddStrategy \/ SearchSimple \/ SearchHybrid)
    \/ AddSearch

SpecFrame == InitFrame /\ [][NextFrame]_vars

(***************************************************************************)
(* Comparisons of new results with the hrefs of earlier searches           *)
(***************************************************************************)

\* documents handed to the comparators: the corpus pool and a second
\* document that carries the href of the first
NewDocPool ==
    DocPool \cup {Doc("Carta de Aylwin (copia)", "", "/a1", <<"cartas">>, <<>>, <<>>)}

\* hrefs a session may have seen: those of the pool and one of no document
HrefPool == {d.href : d \in NewDocPool} \cup {"/a9"}

InitCompare ==
    /\ CompareIdle
    /\ NormIdle /\ SearchIdle /\ ChatIdle /\ TextIdle /\ ThreadsIdle /\ ServicesIdle

\* document_comparator.find_similar(new_docs, previous_hrefs)
FindSimilar ==
    /\ \E c \in {"DocumentComparator", "FuzzyDocumentComparator"} :
       \E nd \in ListsUpTo(NewDocPool, MaxNewDocs) :
       \E ph \in SUBSET HrefPool :
          /\ cmp_comparator' = c
          /\ cmp_new_docs' = nd
          /\ cmp_previous_hrefs' = ph
          /\ cmp_ret' = find_similar(c, nd, ph)
    /\ UNCHANGED outsideCompare

NextCompare == FindSimilar

SpecCompare == InitCompare /\ [][NextCompare]_vars

(***************************************************************************)
(* Requests to the chat endpoint                                           *)
(***************************************************************************)

SessionIds == {"s1", "s2"}

\* the searches recorded in all sessions together
RECURSIVE TotalSearches(_)
TotalSearches(sessions) ==
    IF DOMAIN sessions = {} THEN 0
    ELSE LET i == CHOOSE j \in DOMAIN sessions : TRUE
         IN  Len(sessions[i].search_history)
             + TotalSearches([j \in DOMAIN sessions \ {i} |-> sessions[j]])

\* the requests: a POST with a text (or a query that is no string) and a
\* session id, or the CORS preflight, which carries neither
ChatRequests ==
    {Request("POST", m, sid) : m \in MessagePool \cup {NoneQuery}, sid \in SessionIds}
    \cup {Request("OPTIONS", "", "")}

\* start-up: the documents are loaded, the index is loaded or missing, and
\* there is no session
InitChat ==
    /\ corpus = ChatCorpus
    /\ tfidf_index \in BOOLEAN
    /\ conversation_sessions = NoSessions
    /\ chat_request = Request("", "", "") /\ chat_response = NoResponse
    /\ chat_invoked = <<>>
    /\ NormIdle /\ ContextIdle /\ CompareIdle /\ TextIdle /\ ThreadsIdle /\ ServicesIdle

\* one request to /api/chat, handled from start to end
Chat ==
    /\ \E request \in ChatRequests :
       \E out \in chat(request, conversation_sessions, tfidf_index, corpus) :
          /\ TotalSearches(out.sessions) <= MaxSearches
          /\ chat_request' = request
          /\ chat_response' = out.response
          /\ conversation_sessions' = out.sessions
          /\ chat_invoked' = out.invoked
    /\ UNCHANGED <<tfidf_index, corpus, outsideChat>>

NextChat == Chat

SpecChat == InitChat /\ [][NextChat]_vars

(***************************************************************************)
(* Calls of single functions                                               *)
(***************************************************************************)

\* the queries and the synonym tables of the checked expand calls; <<>> is
\* the constructor's default argument
ExpandQueries ==
    { "", "Fotos", "fotos", "foto", "Cartas y fotos", "carta", "cartas",
      "FOTO de Aylwin", "dictadura", "golpe", "matrícula", "foto foto" }

SynonymTables ==
    { <<>>,
      << <<"foto", <<"foto", "imagen">> >> >>,
      << <<"foto", <<"imagen">> >>, <<"fotos", <<"imagens", "imagen">> >> >>,
      << <<"carta", <<"misiva", "misiva">> >>, <<"a", <<"a">> >> >> }

InitText ==
    /\ TextIdle /\ ThreadsIdle /\ ServicesIdle
    /\ NormIdle /\ SearchIdle /\ CompareIdle /\ ChatIdle

\* SynonymExpander(synonyms).expand(query)
Expand ==
    /\ text_fn = "none"
    /\ \E query \in ExpandQueries, synonyms \in SynonymTables :
          /\ text_fn' = "expand"
          /\ text_args' = <<query, synonyms>>
          /\ text_ret' = SynonymExpander_expand(SynonymExpander(synonyms), query)
    /\ UNCHANGED outsideText

\* the messages of the checked follow-up calls
FollowUpMessages ==
    { "no, busco algo de 1980", "cartas de 1985 y 1980", "1980", "fotos 19805",
      "no me sirve", "me sirve", "gracias, ahora fotos de 2001", "no 1980",
      "espera, 1973 no, 1970", "no es eso, militares 1973",
      "cartas", "xyz", "hola" }

\* what chat() computes for a message in a session that has searched before:
\* its conversation type and the answer of handle_follow_up_message
FollowUpCalls ==
    {<<q, detect_conversation_type(q), handle_follow_up_message(q)>> :
        q \in FollowUpMessages}

\* conversation_type = detect_conversation_type(query) and
\* handle_follow_up_message(query, session), as chat() calls them
HandleFollowUp ==
    /\ text_fn = "none"
    /\ \E call \in FollowUpCalls :
          /\ text_fn' = "handle_follow_up_message"
          /\ text_args' = <<call[1]>>
          /\ text_ret' = [conversation_type |-> call[2], follow_up |-> call[3]]
    /\ UNCHANGED outsideText

\* the values of SemanticSearchStrategy._embedder and ._doc_embeddings
Embedders == {"None", "callable"}
EmbeddingDicts == {"None", "empty", "filled"}

\* SemanticSearchStrategy(embedder, embeddings).search(query, documents,
\* top_k): `not self._embedder` holds for None, `not self._doc_embeddings`
\* for None and for the empty dict; the embedder, if called, raises, returns
\* null or returns a vector
SemanticSearchCall ==
    /\ text_fn = "none"
    /\ \E embedder \in Embedders, embeddings \in EmbeddingDicts :
       \E q \in QueryArgs, docs \in Corpora, k \in 0..MaxTopK :
       \E calls \in {EmbedderCalls(embedder # "None", embeddings = "filled", q)} :
       \E oracle \in IF calls = <<>> THEN {NoOracle}
                     ELSE SemanticOracles(AllTables(q, Len(docs),
                                                    SimValues \cup {NoEmbedding})) :
          /\ text_fn' = "SemanticSearchStrategy.search"
          /\ text_args' = [embedder |-> embedder, embeddings |-> embeddings,
                           query |-> q, documents |-> docs, top_k |-> k]
          /\ text_ret' = [result |-> SemanticSearch(embedder # "None", embeddings = "filled",
                                                    oracle, q, docs, k),
                          embedder_calls |-> calls,
                          embedder_outcome |-> oracle.outcome]
    /\ UNCHANGED outsideText

\* the texts of the checked detect_conversation_type calls
TypeMessages ==
    { "Hola", "¡Hola!", "hola, buenas", "hola !", "adiós ayuda", "chao ok", "ayuda ok",
      "gracias", "Gracias por todo", "quién eres", "ok", "no 1980", "bien mal bueno",
      "Carta de Aylwin", "no me sirve", "si", "  Bueno.  ", "ya, ok, bien, no",
      "help bye", "¿Qué tal?", "para qué sirve esto, ok", "muy bien", "está bien" }

TypeCalls == {<<q, detect_conversation_type(q)>> : q \in TypeMessages}

\* detect_conversation_type(query)
DetectConversationType ==
    /\ text_fn = "none"
    /\ \E call \in TypeCalls :
          /\ text_fn' = "detect_conversation_type"
          /\ text_args' = <<call[1]>>
          /\ text_ret' = call[2]
    /\ UNCHANGED outsideText

\* the messages of the checked IntentionDetector.detect calls
DetectMessages ==
    { "no, gracias", "gracias", "me sirve", "no me sirve", "fotos de 1980", "cartas",
      "hmm", "xyz", "Perfecto, pero otro", "ok bueno", "1973", "algo sobre aylwin",
      "  NO  ", "Gracias, esto es diferente", "listo", "wait", "bien 1990",
      "más reciente" }

DetectCalls == {<<q, detect(q)>> : q \in DetectMessages}

\* IntentionDetector().detect(message)
Detect ==
    /\ text_fn = "none"
    /\ \E call \in DetectCalls :
          /\ text_fn' = "IntentionDetector.detect"
          /\ text_args' = <<call[1]>>
          /\ text_ret' = call[2]
    /\ UNCHANGED outsideText

\* the messages of the checked DateRangeExtractor.extract calls
DateMessages ==
    { "documentos entre 1980 y 1985 de la dictadura", "entre 1980 y 1985",
      "entre 1975 y 1978 década de los 70", "fotos entre 1985 y 1980",
      "cartas de la dictadura", "años 80", "entre 1988 y 1989 plebiscito",
      "Entre 1970 y 1972", "golpe de estado 1973", "entre 1980 y 1985 años 60",
      "cartas", "fotos de 1975" }

DateCalls == {<<q, DateRangeExtractor_extract(q)>> : q \in DateMessages}

\* DateRangeExtractor().extract(message)
ExtractDates ==
    /\ text_fn = "none"
    /\ \E call \in DateCalls :
          /\ text_fn' = "DateRangeExtractor.extract"
          /\ text_args' = <<call[1]>>
          /\ text_ret' = call[2]
    /\ UNCHANGED outsideText

\* The corpora search_documents is called on: the chat corpus, one with a
\* document that lacks the key 'title', and one with a null title.
CascadeCorpora ==
    { ChatCorpus,
      ChatCorpus \o <<Doc(MissingTitle, "", "/a4", <<>>, <<>>, <<>>)>>,
      <<Doc(NullTitle, "", "/a5", <<>>, <<>>, <<>>)>> \o ChatCorpus }

CascadeQueries == {"Carta de Aylwin", "fotos dictadura 1973", "matrícula"}

CascadeArgs ==
    UNION { UNION { {<<q, has_index, oracle, docs>> :
                       oracle \in IndexAnswers(has_index, NormalizedOf(q), docs)} :
                    has_index \in BOOLEAN } :
            q \in CascadeQueries, docs \in CascadeCorpora }

CascadeCalls ==
    {<<a, search_documents(a[1], ChatTopK, a[2], a[3], a[4])>> : a \in CascadeArgs}

\* search_documents(query, top_k) over the global documents and tfidf_index
SearchDocuments ==
    /\ text_fn = "none"
    /\ \E call \in CascadeCalls :
          /\ text_fn' = "search_documents"
          /\ text_args' = call[1]
          /\ text_ret' = call[2]
    /\ UNCHANGED outsideText

NextText ==
    \/ Expand \/ HandleFollowUp \/ SemanticSearchCall \/ DetectConversationType
    \/ Detect \/ ExtractDates \/ SearchDocuments

SpecText == InitText /\ [][NextText]_vars

(***************************************************************************)
(* Concurrent requests to the chat endpoint (app.run(threaded=True)): each  *)
(* request is handled by a thread of its own, and a thread may be           *)
(* interrupted between any two statements that touch shared state           *)
(***************************************************************************)

Threads == {1, 2}

\* most requests received in one run
MaxRequests == 3

\* the texts of the concurrent requests: a greeting, a search and one that
\* is a search in a fresh session and dissatisfaction in a follow-up
ThreadMessages == {"Hola", "Carta de Aylwin", "no me sirve"}

\* the local variables of a request thread: pc is the statement it executes
\* next, session the object get_or_create_session returned (0 before)
Worker(pc, session_id, query, session, results) ==
    [pc |-> pc, session_id |-> session_id, query |-> query, session |-> session,
     results |-> results]

IdleWorker == Worker("idle", "", "", 0, <<>>)

\* ConversationSession(session_id)
SessionObject(session_id) ==
    [session_id |-> session_id, last_query |-> NoneQuery, last_results |-> <<>>,
     search_history |-> <<>>]

\* conversation_sessions[session_id] = object
StoreSession_ForAll(refs, session_id, ref) == [i \in SessionIds |-> ref]
StoreSession(refs, session_id, ref) ==
    [i \in DOMAIN refs \cup {session_id} |-> IF i = session_id THEN ref ELSE refs[i]]

\* what the request searches without the TF-IDF index
ThreadSearch(query) == search_documents(query, ChatTopK, FALSE, NoOracle, ChatCorpus).results

InitThreads ==
    /\ heap = <<>>
    /\ session_refs = [i \in {} |-> 0]
    /\ workers = [t \in Threads |-> IdleWorker]
    /\ touched = {}
    /\ received = 0
    /\ corpus = ChatCorpus
    /\ NormIdle /\ ContextIdle /\ CompareIdle /\ ChatIdle /\ TextIdle /\ ServicesIdle

\* chat(): a request arrives and a thread starts to handle it, up to the call
\* of get_or_create_session
Receive(t) ==
    /\ workers[t].pc = "idle"
    /\ received < MaxRequests
    /\ \E sid \in SessionIds, q \in ThreadMessages :
          workers' = [workers EXCEPT ![t] = Worker("check", sid, q, 0, <<>>)]
    /\ received' = received + 1
    /\ touched' = {}
    /\ UNCHANGED <<heap, session_refs, corpus, outsideThreads>>

\* get_or_create_session: if session_id not in conversation_sessions
CheckSession(t) ==
    /\ workers[t].pc = "check"
    /\ workers' = [workers EXCEPT
                     ![t].pc = IF workers[t].session_id \in DOMAIN session_refs
                               THEN "fetch" ELSE "create"]
    /\ touched' = {workers[t].session_id}
    /\ UNCHANGED <<heap, session_refs, received, corpus, outsideThreads>>

\* get_or_create_session:
\* conversation_sessions[session_id] = ConversationSession(session_id)
CreateSession(t) ==
    /\ workers[t].pc = "create"
    /\ heap' = Append(heap, SessionObject(workers[t].session_id))
    /\ session_refs' = StoreSession(session_refs, workers[t].session_id, Len(heap) + 1)
    /\ workers' = [workers EXCEPT ![t].pc = "fetch"]
    /\ touched' = DOMAIN session_refs' \ {i \in DOMAIN session_refs :
                                            session_refs'[i] = session_refs[i]}
    /\ UNCHANGED <<received, corpus, outsideThreads>>

\* get_or_create_session: return conversation_sessions[session_id]
FetchSession(t) ==
    /\ workers[t].pc = "fetch"
    /\ workers' = [workers EXCEPT ![t].session = session_refs[workers[t].session_id],
                                  ![t].pc = "decide"]
    /\ touched' = {workers[t].session_id}
    /\ UNCHANGED <<heap, session_refs, received, corpus, outsideThreads>>

\* chat() from detect_conversation_type to search_documents: a casual message
\* is answered at once; session.is_follow_up() reads the history of the
\* session object; a follow-up is answered by a branch or searched with the
\* refined query; the search itself reads no session
Decide(t) ==
    /\ workers[t].pc = "decide"
    /\ \E w \in {workers[t]} :
       \E follow_up \in {is_follow_up(heap[w.session])} :
       \E casual \in {ConversationTypeOf(w.query) \in CasualTypes} :
          /\ workers' =
               [workers EXCEPT ![t] =
                  IF casual THEN IdleWorker
                  ELSE IF follow_up /\ ~FollowUpOf(w.query).should_search THEN IdleWorker
                  ELSE Bind(IF follow_up THEN FollowUpOf(w.query).new_query ELSE w.query,
                            LAMBDA searched_query :
                               Worker("add_query", w.session_id, searched_query, w.session,
                                      ThreadSearch(searched_query)))]
          /\ touched' = IF casual THEN {} ELSE {heap[w.session].session_id}
    /\ UNCHANGED <<heap, session_refs, received, corpus, outsideThreads>>

\* add_search: self.last_query = query
AddQuery(t) ==
    /\ workers[t].pc = "add_query"
    /\ heap' = [heap EXCEPT ![workers[t].session].last_query = workers[t].query]
    /\ workers' = [workers EXCEPT ![t].pc = "add_results"]
    /\ touched' = {heap[workers[t].session].session_id}
    /\ UNCHANGED <<session_refs, received, corpus, outsideThreads>>

\* add_search: self.last_results = results
AddResults(t) ==
    /\ workers[t].pc = "add_results"
    /\ heap' = [heap EXCEPT ![workers[t].session].last_results = workers[t].results]
    /\ workers' = [workers EXCEPT ![t].pc = "add_history"]
    /\ touched' = {heap[workers[t].session].session_id}
    /\ UNCHANGED <<session_refs, received, corpus, outsideThreads>>

\* add_search: self.search_history.append({...}), and the rest of chat(),
\* which touches no session
AddHistory(t) ==
    /\ workers[t].pc = "add_history"
    /\ heap' = [heap EXCEPT ![workers[t].session].search_history =
                   add_search(heap[workers[t].session], workers[t].query,
                              workers[t].results).search_history]
    /\ workers' = [workers EXCEPT ![t] = IdleWorker]
    /\ touched' = {heap[workers[t].session].session_id}
    /\ UNCHANGED <<session_refs, received, corpus, outsideThreads>>

\* the next statement of thread t
Step(t) ==
    \/ Receive(t) \/ CheckSession(t) \/ CreateSession(t) \/ FetchSession(t)
    \/ Decide(t) \/ AddQuery(t) \/ AddResults(t) \/ AddHistory(t)

NextThreads == \E t \in Threads : Step(t)

SpecThreads == InitThreads /\ [][NextThreads]_vars

(***************************************************************************)
(* GeminiClientProxy (services/llm_proxy.py).  The Gemini API is external:  *)
(* what one call of it does is a choice among returning a value, returning  *)
(* an answer without the value, and raising.                                *)
(***************************************************************************)

\* GeminiClientProxy._max_failures
max_failures == 5

\* The values the methods return, by type: None, the dict of embed with
\* its "embedding" item, the text of generate, a bool.
Value(type, value) == [type |-> type, value |-> value]

NoResult == Value("NoneType", "None")

ApiOutcomes == {"value", "no value", "raises"}

\* GeminiClientProxy.__init__
GeminiClientProxy(api_key_present) == [enabled |-> api_key_present, failure_count |-> 0]

\* Variant of CircuitOpen for a proxy without circuit breaker.
CircuitOpen_Never(self) == FALSE

\* self._failure_count >= self._max_failures
CircuitOpen(self) == self.failure_count >= max_failures

\* What a call did: the proxy object after it, what it returned and whether
\* it called the API.
CallDone(self, result, invoked) == [self |-> self, result |-> result, invoked |-> invoked]

\* GeminiClientProxy.embed, the API call doing the given thing;
\* result.get("embedding") of an answer without that key is None, inside a
\* dict that is returned.
GeminiClientProxy_embed(self, outcome) ==
    IF ~self.enabled THEN CallDone(self, NoResult, FALSE)
    ELSE IF CircuitOpen(self) THEN CallDone(self, NoResult, FALSE)
    ELSE IF outcome = "raises"
         THEN CallDone([self EXCEPT !.failure_count = @ + 1], NoResult, TRUE)
    ELSE CallDone([self EXCEPT !.failure_count = 0],
                  Value("dict", IF outcome = "value" THEN "vector" ELSE "None"), TRUE)

\* GeminiClientProxy.generate; getattr(response, "text", None) of an answer
\* without text is None.
GeminiClientProxy_generate(self, outcome) ==
    IF ~self.enabled THEN CallDone(self, NoResult, FALSE)
    ELSE IF CircuitOpen(self) THEN CallDone(self, NoResult, FALSE)
    ELSE IF outcome = "raises"
         THEN CallDone([self EXCEPT !.failure_count = @ + 1], NoResult, TRUE)
    ELSE CallDone([self EXCEPT !.failure_count = 0],
                  IF outcome = "value" THEN Value("str", "text") ELSE NoResult, TRUE)

\* GeminiClientProxy.is_available
is_available(self) == self.enabled /\ self.failure_count < max_failures

\* GeminiClientProxy.reset_circuit_breaker
reset_circuit_breaker(self) == [self EXCEPT !.failure_count = 0]

(***************************************************************************)
(* Calls on one GeminiClientProxy, one after the other                      *)
(***************************************************************************)

\* The record of a call: its number, the method, what the API did (if it
\* was called), what the method returned and whether it called the API.
LlmCall(number, fn, outcome, result, invoked) ==
    [number |-> number, fn |-> fn, outcome |-> outcome, result |-> result,
     invoked |-> invoked]

InitProxy ==
    /\ gemini \in {GeminiClientProxy(api_key_present) : api_key_present \in BOOLEAN}
    /\ llm_call = LlmCall(0, "none", "none", NoResult, FALSE)
    /\ failed_in_row = 0
    /\ proxy_workers = <<>>
    /\ CacheIdle /\ BusIdle
    /\ NormIdle /\ SearchIdle /\ CompareIdle /\ ChatIdle /\ TextIdle /\ ThreadsIdle

\* The API calls that raised in a row, after a call that did the given thing.
FailedInRowAfter(done, outcome) ==
    IF ~done.invoked THEN failed_in_row
    ELSE IF outcome = "raises" THEN failed_in_row + 1
    ELSE 0

\* proxy.embed(text, model=..., task_type=...)
Embed ==
    /\ llm_call.number < MaxCalls
    /\ \E outcome \in ApiOutcomes :
       \E done \in {GeminiClientProxy_embed(gemini, outcome)} :
          /\ gemini' = done.self
          /\ llm_call' = LlmCall(llm_call.number + 1, "embed",
                                 IF done.invoked THEN outcome ELSE "none",
                                 done.result, done.invoked)
          /\ failed_in_row' = FailedInRowAfter(done, outcome)
    /\ UNCHANGED <<proxy_workers, cacheVars, busVars, outsideServices>>

\* proxy.generate(prompt, model_name=...)
Generate ==
    /\ llm_call.number < MaxCalls
    /\ \E outcome \in ApiOutcomes :
       \E done \in {GeminiClientProxy_generate(gemini, outcome)} :
          /\ gemini' = done.self
          /\ llm_call' = LlmCall(llm_call.number + 1, "generate",
                                 IF done.invoked THEN outcome ELSE "none",
                                 done.result, done.invoked)
          /\ failed_in_row' = FailedInRowAfter(done, outcome)
    /\ UNCHANGED <<proxy_workers, cacheVars, busVars, outsideServices>>

\* proxy.is_available()
IsAvailable ==
    /\ llm_call.number < MaxCalls
    /\ llm_call' = LlmCall(llm_call.number + 1, "is_available", "none",
                           Value("bool", IF is_available(gemini) THEN "True" ELSE "False"),
                           FALSE)
    /\ UNCHANGED <<gemini, failed_in_row, proxy_workers>>
    /\ UNCHANGED <<cacheVars, busVars, outsideServices>>

\* proxy.reset_circuit_breaker()
ResetCircuitBreaker ==
    /\ llm_call.number < MaxCalls
    /\ gemini' = reset_circuit_breaker(gemini)
    /\ llm_call' = LlmCall(llm_call.number + 1, "reset_circuit_breaker", "none",
                           NoResult, FALSE)
    /\ failed_in_row' = 0
    /\ UNCHANGED <<proxy_workers, cacheVars, busVars, outsideServices>>

NextProxy == Embed \/ Generate \/ IsAvailable \/ ResetCircuitBreaker

SpecProxy == InitProxy /\ [][NextProxy]_vars

(***************************************************************************)
(* Calls on one GeminiClientProxy shared by the request threads             *)
(* (app.run(threaded=True)).  A thread can be suspended between any two     *)
(* reads and writes of the object and while it waits for the API.           *)
(***************************************************************************)

\* The local state of a thread inside embed or generate: where it is, the
\* method, and the count it read for `self._failure_count += 1`.
ProxyWorker(pc, fn, count) == [pc |-> pc, fn |-> fn, count |-> count]

InitProxyThreads ==
    /\ gemini \in {GeminiClientProxy(api_key_present) : api_key_present \in BOOLEAN}
    /\ llm_call = LlmCall(0, "none", "none", NoResult, FALSE)
    /\ failed_in_row = 0
    /\ proxy_workers = [t \in Threads |-> ProxyWorker("idle", "none", 0)]
    /\ CacheIdle /\ BusIdle
    /\ NormIdle /\ SearchIdle /\ CompareIdle /\ ChatIdle /\ TextIdle /\ ThreadsIdle

\* A thread enters embed or generate and passes the two checks, or returns
\* None at one of them.
EnterCall(t) ==
    /\ proxy_workers[t].pc = "idle"
    /\ llm_call.number < MaxCalls
    /\ \E fn \in {"embed", "generate"} :
          /\ proxy_workers' =
                [proxy_workers EXCEPT
                    ![t] = IF ~gemini.enabled \/ CircuitOpen(gemini)
                           THEN ProxyWorker("idle", fn, 0)
                           ELSE ProxyWorker("api", fn, 0)]
          /\ llm_call' = LlmCall(llm_call.number + 1, fn, "none", NoResult,
                                 gemini.enabled /\ ~CircuitOpen(gemini))
    /\ UNCHANGED <<gemini, failed_in_row, cacheVars, busVars, outsideServices>>

\* The API call of a thread returns: self._failure_count = 0 and the method
\* returns.
ApiReturns(t) ==
    /\ proxy_workers[t].pc = "api"
    /\ gemini' = [gemini EXCEPT !.failure_count = 0]
    /\ proxy_workers' = [proxy_workers EXCEPT ![t].pc = "idle"]
    /\ UNCHANGED <<llm_call, failed_in_row, cacheVars, busVars, outsideServices>>

\* The API call of a thread raises: the thread is in the except block.
ApiRaises(t) ==
    /\ proxy_workers[t].pc = "api"
    /\ proxy_workers' = [proxy_workers EXCEPT ![t].pc = "except"]
    /\ UNCHANGED <<gemini, llm_call, failed_in_row, cacheVars, busVars, outsideServices>>

\* self._failure_count += 1, first half: the count is read
LoadCount(t) ==
    /\ proxy_workers[t].pc = "except"
    /\ proxy_workers' =
          [proxy_workers EXCEPT ![t].pc = "store", ![t].count = gemini.failure_count]
    /\ UNCHANGED <<gemini, llm_call, failed_in_row, cacheVars, busVars, outsideServices>>

\* self._failure_count += 1, second half: the count read plus 1 is written
\* and the method returns None.
StoreCount(t) ==
    /\ proxy_workers[t].pc = "store"
    /\ gemini' = [gemini EXCEPT !.failure_count = proxy_workers[t].count + 1]
    /\ proxy_workers' = [proxy_workers EXCEPT ![t].pc = "idle"]
    /\ UNCHANGED <<llm_call, failed_in_row, cacheVars, busVars, outsideServices>>

ProxyStep(t) ==
    EnterCall(t) \/ ApiReturns(t) \/ ApiRaises(t) \/ LoadCount(t) \/ StoreCount(t)

NextProxyThreads == \E t \in Threads : ProxyStep(t)

SpecProxyThreads == InitProxyThreads /\ [][NextProxyThreads]_vars

(***************************************************************************)
(* CachingLLMProxy (services/llm_proxy.py) around a wrapped LLMProxy.  The  *)
(* wrapped proxy is external: its embed returns None or a dict with the     *)
(* embedding, as every LLMProxy of the repository does.                     *)
(***************************************************************************)

\* self._hash_key(text, model, task_type): the md5 digest of the arguments
\* joined with "|", known by the joined string.
hash_key(args) == args[1] \o "|" \o args[2] \o "|" \o args[3]

\* Variant of CachingLLMProxy_is_valid for entries that never expire.
CachingLLMProxy_is_valid_Always(timestamp, now) == TRUE

\* CachingLLMProxy._is_valid at the time `now`
CachingLLMProxy_is_valid(timestamp, now) == now - timestamp < cache_ttl_seconds

\* `if result:` for a result of embed
Truthy(result) == result.type # "NoneType"

\* A function with one more (or a replaced) entry: dict[key] = value
Store(dict, key, value) ==
    [k \in DOMAIN dict \cup {key} |-> IF k = key THEN value ELSE dict[k]]

\* CachingLLMProxy.embed called at the time `now`: the cache afterwards, the
\* result, and whether the wrapped proxy was called; `answer` is what the
\* wrapped proxy returns if it is called and `stored_at` the time at which
\* the result is stored.
CachingLLMProxy_embed(cache, now, stored_at, args, answer) ==
    Bind(hash_key(args), LAMBDA cache_key :
        IF cache_key \in DOMAIN cache
           /\ CachingLLMProxy_is_valid(cache[cache_key].timestamp, now)
        THEN [cache |-> cache, result |-> cache[cache_key].result, reached |-> FALSE]
        ELSE [cache |-> IF Truthy(answer)
                        THEN Store(cache, cache_key,
                                   [result |-> answer, timestamp |-> stored_at])
                        ELSE cache,
              result |-> answer, reached |-> TRUE])

\* The argument triples (text, model, task_type) of the checked calls; the
\* first two have the same cache key.
EmbedArgs == {<<"a|b", "c", "q">>, <<"a", "b|c", "q">>, <<"a", "c", "q">>}

WrappedAnswers == {NoResult, Value("dict", "v1"), Value("dict", "v2")}

NoEntries == [k \in {} |-> NoResult]

\* The record of a call on the caching proxy: its number, the method, the
\* arguments, what it returned and whether it called the wrapped proxy.
CacheCall(number, fn, args, result, reached) ==
    [number |-> number, fn |-> fn, args |-> args, result |-> result,
     reached |-> reached]

InitCache ==
    /\ embedding_cache = NoEntries
    /\ clock = 0
    /\ stored_results = NoEntries
    /\ cache_call = CacheCall(0, "none", <<>>, NoResult, FALSE)
    /\ ProxyIdle /\ BusIdle
    /\ NormIdle /\ SearchIdle /\ CompareIdle /\ ChatIdle /\ TextIdle /\ ThreadsIdle

\* proxy.embed(text, model=..., task_type=...); the wrapped call may take
\* time.  A non-null result is remembered for the triple together with the
\* time at which the cache stored it.
CachedEmbed ==
    /\ cache_call.number < MaxCacheCalls
    /\ \E args \in EmbedArgs : \E answer \in WrappedAnswers :
       \E stored_at \in {t \in {clock, clock + 1} : t <= MaxClock} :
       \E done \in {CachingLLMProxy_embed(embedding_cache, clock, stored_at, args, answer)} :
          /\ embedding_cache' = done.cache
          /\ clock' = IF done.reached THEN stored_at ELSE clock
          /\ cache_call' = CacheCall(cache_call.number + 1, "embed", args, done.result,
                                    done.reached)
          /\ stored_results' =
                IF Truthy(done.result)
                THEN Store(stored_results, args,
                           [result |-> done.result,
                            timestamp |-> done.cache[hash_key(args)].timestamp])
                ELSE stored_results
    /\ UNCHANGED <<proxyVars, busVars, outsideServices>>

\* proxy.clear_cache()
ClearCache ==
    /\ cache_call.number < MaxCacheCalls
    /\ embedding_cache' = NoEntries
    /\ stored_results' = NoEntries
    /\ cache_call' = CacheCall(cache_call.number + 1, "clear_cache", <<>>, NoResult, FALSE)
    /\ UNCHANGED <<clock, proxyVars, busVars, outsideServices>>

\* Time passes between two calls.
Tick ==
    /\ clock < MaxClock
    /\ clock' = clock + 1
    /\ UNCHANGED <<embedding_cache, stored_results, cache_call>>
    /\ UNCHANGED <<proxyVars, busVars, outsideServices>>

NextCache == CachedEmbed \/ ClearCache \/ Tick

SpecCache == InitCache /\ [][NextCache]_vars

(***************************************************************************)
(* EventBus (services/events.py).  The handlers are external callables: a   *)
(* call of one returns or raises an Exception.                              *)
(***************************************************************************)

Events == {"chat.received", "search.done"}

Handlers == {"h1", "h2", "h3"}

Payloads == {"{'query': 'hola'}"}

\* EventBus.__init__
EventBus == [e \in {} |-> <<>>]

\* EventBus.subscribe: self._subs.setdefault(event, []).append(handler)
EventBus_subscribe(self, event, handler) ==
    Store(self, event, Append(IF event \in DOMAIN self THEN self[event] ELSE <<>>, handler))

\* One call of a handler made by publish.
HandlerCall(handler, payload, outcome) ==
    [handler |-> handler, payload |-> payload, outcome |-> outcome]

\* What a publish call did: the handler calls it made, in order, and whether
\* it raised.
PublishDone(calls, raised) == [calls |-> calls, raised |-> raised]

RECURSIVE EventBus_publish_Uncaught(_, _, _, _, _)
\* Variant of EventBus_publish without the try block around the call.
EventBus_publish_Uncaught(handlers, i, payload, outcomes, calls) ==
    IF i > Len(handlers) THEN PublishDone(calls, FALSE)
    ELSE IF outcomes[i] = "raises"
         THEN PublishDone(Append(calls, HandlerCall(handlers[i], payload, outcomes[i])),
                          TRUE)
    ELSE EventBus_publish_Uncaught(handlers, i + 1, payload, outcomes,
             Append(calls, HandlerCall(handlers[i], payload, outcomes[i])))

RECURSIVE EventBus_publish(_, _, _, _, _)
\* The loop of EventBus.publish over self._subs.get(event, []), from the
\* i-th handler on: handler(payload) inside try/except Exception: pass.
\* outcomes[i] is what the call of the i-th handler does.
EventBus_publish(handlers, i, payload, outcomes, calls) ==
    IF i > Len(handlers) THEN PublishDone(calls, FALSE)
    ELSE EventBus_publish(handlers, i + 1, payload, outcomes,
             Append(calls, HandlerCall(handlers[i], payload, outcomes[i])))

\* self._subs.get(event, [])
Subscribed(self, event) == IF event \in DOMAIN self THEN self[event] ELSE <<>>

RECURSIVE SumOf(_, _)
SumOf(f, keys) ==
    IF keys = {} THEN 0
    ELSE Bind(CHOOSE k \in keys : TRUE, LAMBDA k : Len(f[k]) + SumOf(f, keys \ {k}))

\* The record of the last publish call ("none" before the first and after
\* a subscription).
NoPublish == [fn |-> "none", event |-> "", payload |-> "", raised |-> FALSE]

InitBus ==
    /\ bus_subs = EventBus
    /\ published = NoPublish
    /\ delivered = <<>>
    /\ ProxyIdle /\ CacheIdle
    /\ NormIdle /\ SearchIdle /\ CompareIdle /\ ChatIdle /\ TextIdle /\ ThreadsIdle

\* bus.subscribe(event, handler)
Subscribe ==
    /\ SumOf(bus_subs, DOMAIN bus_subs) < MaxSubscriptions
    /\ \E event \in Events : \E handler \in Handlers :
          bus_subs' = EventBus_subscribe(bus_subs, event, handler)
    /\ published' = NoPublish
    /\ delivered' = <<>>
    /\ UNCHANGED <<proxyVars, cacheVars, outsideServices>>

\* bus.publish(event, payload)
Publish ==
    /\ \E event \in Events : \E payload \in Payloads :
       \E outcomes \in [1..Len(Subscribed(bus_subs, event)) -> {"returns", "raises"}] :
       \E done \in {EventBus_publish(Subscribed(bus_subs, event), 1, payload, outcomes,
                                     <<>>)} :
          /\ published' = [fn |-> "publish", event |-> event, payload |-> payload,
                           raised |-> done.raised]
          /\ delivered' = done.calls
    /\ UNCHANGED <<bus_subs, proxyVars, cacheVars, outsideServices>>

NextBus == Subscribe \/ Publish

SpecBus == InitBus /\ [][NextBus]_vars

(***************************************************************************)
(* Properties of the search strategies                                     *)
(***************************************************************************)

\* [d['href'] for d in list]
Hrefs(list) == [i \in 1..Len(list) |-> list[i].doc.href]

\* The list with x inserted so that pos entries precede it.
InsertAt(list, pos, x) ==
    SubSeq(list, 1, pos) \o <<x>> \o SubSeq(list, pos + 1, Len(list))

\* The score list is non-increasing by index.
NonIncreasing(list) ==
    \A i, j \in 1..Len(list) :
        i < j => ~RatLess(list[i].relevance_score, list[j].relevance_score)

\* The last call was a hybrid search that returned.
HybridReturned == searched = "HybridSearch" /\ ~ret.raised

\* The form ExactTitleSearchStrategy.search brings the query to.
NormalizedForm(s) == Strip(Lower(s))

\* C1: for every document D of the corpus and every query Q, the exact-title
\* search (with top_k large enough to hold all matches) returns D with
\* relevance_score 1.0 if and only if normalized(Q) equals
\* normalized(title(D)).
C1_ScoreOneIffNormalizedEqual ==
    (searched = "ExactTitleSearch" /\ ~ret.raised /\ arg_top_k >= Len(corpus)) =>
        \A i \in 1..Len(corpus) :
            (\E j \in 1..Len(ret.docs) :
                /\ ret.docs[j].doc = corpus[i]
                /\ ret.docs[j].relevance_score.num = ret.docs[j].relevance_score.den)
            <=> NormalizedForm(arg_query) = NormalizedForm(ExactTitleOf(corpus[i]))

\* C3: adding a (strategy, weight 0) pair at any position of the strategy
\* list of a hybrid search changes neither the hrefs returned nor their
\* order.  The search with the pair added makes the calls of the log plus
\* the call of the added strategy, at its position.
C3_ZeroWeightStrategyIsNeutral ==
    HybridReturned =>
        \A s \in SimpleStrategies : \A pos \in 0..Len(call_log) :
        \A o \in OraclesFor(s, IndexTables(arg_query, corpus),
                            EmbeddingTables(arg_query, corpus)) :
            LET added == StrategySearch(s, o, arg_query, corpus, arg_top_k * 2)
                log == InsertAt(call_log, pos, Call(s.kind, 0, arg_top_k * 2, added))
                withAdded == RankFused(FuseCalls(log, 1, <<>>, RankProduct(Len(corpus))),
                                       arg_top_k)
            IN  ~added.raised => Hrefs(withAdded) = Hrefs(ret.docs)

\* C7: when a sub-strategy of a hybrid search raises, the hybrid search does
\* not raise (it goes on with the other sub-strategies).
C7_HybridSurvivesRaisingStrategy ==
    (searched = "HybridSearch"
        /\ \E i \in 1..Len(call_log) : call_log[i].result.raised)
    => ~ret.raised

\* C8: for every strategy, query, corpus and top_k >= 0 the returned list has
\* at most top_k entries and its relevance_score values are non-increasing
\* by index.
C8_AtMostTopKAndNonIncreasing ==
    (searched # "none" /\ ~ret.raised) =>
        /\ Len(ret.docs) <= arg_top_k
        /\ NonIncreasing(ret.docs)

\* A search that truncated: two documents scored, one asked for and returned.
C8_Witness ==
    /\ HybridReturned
    /\ arg_top_k = 1 /\ Len(ret.docs) = 1
    /\ \E i \in 1..Len(call_log) : Len(call_log[i].result.docs) = 2

\* C9: over a corpus of pairwise distinct hrefs, the list a hybrid search
\* returns has no two entries of the same href; a document several
\* sub-strategies returned is one entry, which records each of those
\* sub-strategies once, in call order.
C9_OneEntryPerHref ==
    HybridReturned =>
        /\ \A i, j \in 1..Len(ret.docs) :
              ret.docs[i].doc.href = ret.docs[j].doc.href => i = j
        /\ \A i \in 1..Len(ret.docs) :
              ret.docs[i].strategies_used =
                  SelectSeq2([c \in 1..Len(call_log) |->
                      IF \E r \in 1..Len(call_log[c].result.docs) :
                            call_log[c].result.docs[r].doc.href = ret.docs[i].doc.href
                      THEN <<call_log[c].name>> ELSE <<>>], 1)

\* A returned document that two sub-strategies ranked.
C9_Witness ==
    /\ HybridReturned
    /\ \E i \in 1..Len(ret.docs) : Len(ret.docs[i].strategies_used) >= 2

\* The 1-based rank of href h in a sub-strategy result, 0 when absent.
RankOf(h, result) ==
    IF \E r \in 1..Len(result) : result[r].doc.href = h
    THEN CHOOSE r \in 1..Len(result) : result[r].doc.href = h
    ELSE 0

\* The sum over the calls of weight / (60 + rank of h), scaled by 10 * P.
RRFSum(h, log, P) ==
    SumOver([c \in 1..Len(log) |->
                IF RankOf(h, log[c].result.docs) = 0 THEN 0
                ELSE log[c].weight * (P \div (RRF_K + RankOf(h, log[c].result.docs)))],
            Len(log))

\* The hrefs some sub-strategy returned.
TouchedHrefs(log) ==
    UNION {SeqToSet(Hrefs(log[c].result.docs)) : c \in 1..Len(log)}

\* C10: a hybrid search calls each configured sub-strategy once, in order,
\* with top_k * 2; the score of each returned href is the sum over the
\* sub-strategies of weight / (60 + rank); and the output is the top_k
\* touched hrefs by that sum, in descending order.
C10_ReciprocalRankFusion ==
    HybridReturned =>
        LET P == RankProduct(Len(corpus))
            subs == context_strategy.strategies
            returned == SeqToSet(Hrefs(ret.docs))
        IN  /\ Len(call_log) = Len(subs)
            /\ \A c \in 1..Len(subs) :
                  /\ call_log[c].name = subs[c].strategy.kind
                  /\ call_log[c].weight = subs[c].weight
                  /\ call_log[c].top_k = arg_top_k * 2
            /\ \A i \in 1..Len(ret.docs) :
                  ret.docs[i].relevance_score =
                      Rat(RRFSum(ret.docs[i].doc.href, call_log, P), 10 * P)
            /\ NonIncreasing(ret.docs)
            /\ returned \subseteq TouchedHrefs(call_log)
            /\ Len(ret.docs) =
                  IF Cardinality(TouchedHrefs(call_log)) < arg_top_k
                  THEN Cardinality(TouchedHrefs(call_log)) ELSE arg_top_k
            /\ \A h \in TouchedHrefs(call_log) \ returned :
               \A i \in 1..Len(ret.docs) :
                  RRFSum(h, call_log, P) <= ret.docs[i].relevance_score.num

\* A fusion of two sub-results that rank two documents, one of them ranked
\* by one sub-strategy only, cut to the best one.
C10_Witness ==
    /\ HybridReturned
    /\ Len(call_log) = 2 /\ arg_top_k = 1 /\ Len(ret.docs) = 1
    /\ Cardinality(TouchedHrefs(call_log)) = 2
    /\ \E h \in TouchedHrefs(call_log) : \E c \in 1..2 :
          RankOf(h, call_log[c].result.docs) = 0

\* the last search was made by ExactTitle, by the keyword fallback of TFIDF
\* (no index), by Metadata, or by a hybrid strategy built from those
TextualStrategies == {ExactTitleStrategy, TFIDFStrategy(FALSE), MetadataStrategy}

SearchedTextually ==
    \/ /\ searched \in {"ExactTitleSearch", "TFIDFSearch", "MetadataSearch"}
       /\ \E s \in TextualStrategies : context_strategy = Simple(s)
    \/ /\ searched = "HybridSearch"
       /\ context_strategy.strategies # <<>>
       /\ \A i \in 1..Len(context_strategy.strategies) :
             context_strategy.strategies[i].strategy \in TextualStrategies

\* C15: for the empty query and for a query of white space only, the search
\* of ExactTitle, of the TFIDF keyword fallback, of Metadata and of a hybrid
\* strategy built from them returns the empty list and does not raise, for
\* every corpus.
C15_EmptyQueryFindsNothing ==
    (/\ SearchedTextually
     /\ arg_query # NoneQuery
     /\ Strip(arg_query) = "")
    => ret = Returned(<<>>)

\* The query and the title as ExactTitleSearchStrategy.search compares them.
ComparedQuery == Strip(Lower(arg_query))

ComparedTitle(doc) == Lower(ExactTitleOf(doc))

WordsInCommon(doc) == SeqToSet(Split(ComparedQuery)) \cap SeqToSet(Split(ComparedTitle(doc)))

\* The first rule of the list that applies to a titled document (0: none).
FirstRule(doc) ==
    IF ComparedQuery = ComparedTitle(doc) THEN 1
    ELSE IF Contains(ComparedTitle(doc), ComparedQuery) THEN 2
    ELSE IF Contains(ComparedQuery, ComparedTitle(doc)) THEN 3
    ELSE IF WordsInCommon(doc) # {} THEN 4
    ELSE 0

\* The score of each rule.
RuleScore(rule, doc) ==
    CASE rule = 1 -> Rat(100, 100)
      [] rule = 2 -> Rat(90, 100)
      [] rule = 3 -> Rat(85, 100)
      [] rule = 4 -> Rat(70 * Cardinality(WordsInCommon(doc)),
                         100 * Cardinality(SeqToSet(Split(ComparedQuery))))

\* The documents the rules keep, in corpus order.
KeptByTheRules ==
    SelectSeq(corpus, LAMBDA doc : ExactTitleOf(doc) # "" /\ FirstRule(doc) # 0)

\* C21: ExactTitleSearchStrategy scores each titled document by the first
\* rule that applies, in this order: 1.0 if the query equals the title, 0.9
\* if the query is a substring of the title, 0.85 if the title is a substring
\* of the query, 0.7 * |common words| / |query words| if the word sets
\* overlap; otherwise, and without a title, the document is excluded.  Every
\* returned entry is a kept document with the score of its first rule, and a
\* search with room for the whole corpus returns exactly the kept documents.
C21_FirstApplicableRuleScores ==
    (searched = "ExactTitleSearch" /\ ~ret.raised) =>
        /\ \A j \in 1..Len(ret.docs) :
              /\ \E i \in 1..Len(KeptByTheRules) : KeptByTheRules[i] = ret.docs[j].doc
              /\ RatEq(ret.docs[j].relevance_score,
                       RuleScore(FirstRule(ret.docs[j].doc), ret.docs[j].doc))
        /\ Len(ret.docs) = Len(Take(KeptByTheRules, arg_top_k))
        /\ arg_top_k >= Len(corpus) =>
              \A i \in 1..Len(KeptByTheRules) :
                  \E j \in 1..Len(ret.docs) : ret.docs[j].doc = KeptByTheRules[i]

\* The query "Carta " is a substring of one title and shares no word with
\* the other: the first document is returned with 0.9, the second is not.
C21_Witness ==
    /\ searched = "ExactTitleSearch" /\ ~ret.raised
    /\ arg_query = "Carta " /\ arg_top_k = 2
    /\ Len(corpus) = 2 /\ corpus[1].href = "/a1" /\ corpus[2].href = "/a2"
    /\ Len(ret.docs) = 1 /\ ret.docs[1].doc = corpus[1]
    /\ RatEq(ret.docs[1].relevance_score, Rat(9, 10))

\* The title "Carta " is a substring of the query "carta de aylwin", which
\* equals the other title: scores 1.0 and 0.85.
C21_WitnessReverse ==
    /\ searched = "ExactTitleSearch" /\ ~ret.raised
    /\ arg_query = "carta de aylwin" /\ arg_top_k = 2
    /\ Len(ret.docs) = 2
    /\ RatEq(ret.docs[1].relevance_score, Rat(1, 1)) /\ ret.docs[1].doc.href = "/a1"
    /\ RatEq(ret.docs[2].relevance_score, Rat(85, 100)) /\ ret.docs[2].doc.href = "/a3"

\* The documents of a list of result entries that carry the given score.
DocsScored(entries, score) ==
    [i \in 1..Len(SelectSeq(entries, LAMBDA e : RatEq(e.relevance_score, score))) |->
        SelectSeq(entries, LAMBDA e : RatEq(e.relevance_score, score))[i].doc]

\* The documents of the corpus to which the rules give the given score, in
\* corpus order.
CorpusScored(score) ==
    SelectSeq(KeptByTheRules, LAMBDA doc : RatEq(RuleScore(FirstRule(doc), doc), score))

\* C22: in the output of ExactTitleSearchStrategy.search, documents of equal
\* relevance_score appear in their corpus order, and the truncation to top_k
\* keeps the earlier documents among equals: for every score, the returned
\* documents of that score are the first ones of the corpus with that score.
C22_TiesKeepCorpusOrder ==
    (searched = "ExactTitleSearch" /\ ~ret.raised) =>
        \A j \in 1..Len(ret.docs) :
            \E sc \in {ret.docs[j].relevance_score} :
                /\ Len(DocsScored(ret.docs, sc)) <= Len(CorpusScored(sc))
                /\ DocsScored(ret.docs, sc)
                       = SubSeq(CorpusScored(sc), 1, Len(DocsScored(ret.docs, sc)))

\* Two different documents score 0.9 for "Carta "; both are returned, the
\* one the corpus lists first ("/a3") before the other.
C22_Witness ==
    /\ searched = "ExactTitleSearch" /\ ~ret.raised
    /\ arg_query = "Carta " /\ arg_top_k = 2
    /\ Len(corpus) = 2 /\ corpus[1].href = "/a3" /\ corpus[2].href = "/a1"
    /\ Len(ret.docs) = 2 /\ ret.docs[1].doc = corpus[1] /\ ret.docs[2].doc = corpus[2]
    /\ RatEq(ret.docs[1].relevance_score, ret.docs[2].relevance_score)

\* The same search truncated to one entry keeps the first document.
C22_WitnessTruncated ==
    /\ searched = "ExactTitleSearch" /\ ~ret.raised
    /\ arg_query = "Carta " /\ arg_top_k = 1
    /\ Len(corpus) = 2 /\ corpus[1].href = "/a3" /\ corpus[2].href = "/a1"
    /\ Len(ret.docs) = 1 /\ ret.docs[1].doc = corpus[1]

\* C23: no search operation changes the corpus: after every search of a
\* strategy (ExactTitle, TFIDF, Semantic, Metadata, Hybrid) and every
\* add_search of a session, the list of documents has the length and the
\* order it had and every document has exactly the keys and values it had
\* (no relevance_score, _strategy, _match_type or _strategies_used is added).
C23_SearchesLeaveTheCorpusUnchanged == [][corpus' = corpus]_vars

\* A hybrid search returned documents on which three strategies wrote their
\* result keys, and the session recorded a search with results.
C23_Witness ==
    /\ searched = "HybridSearch" /\ ~ret.raised
    /\ Len(call_log) = 2 /\ Len(ret.docs) = 2
    /\ conversation_sessions # NoSessions
    /\ conversation_sessions[FrameSession].last_results # <<>>
    /\ Len(conversation_sessions[FrameSession].search_history) = 1

\* A search of each non-composite strategy returned a document of the corpus.
C23_WitnessExact == searched = "ExactTitleSearch" /\ ret.docs # <<>>
C23_WitnessTfidf ==
    searched = "TFIDFSearch" /\ context_strategy.has_index /\ ret.docs # <<>>
C23_WitnessSemantic == searched = "SemanticSearch" /\ ret.docs # <<>>
C23_WitnessMetadata == searched = "MetadataSearch" /\ ret.docs # <<>>

(***************************************************************************)
(* Properties of concurrent requests                                       *)
(***************************************************************************)

\* a session stored for an id stays the one stored for it
StoredSessionsStay ==
    \A i \in DOMAIN session_refs :
        i \in DOMAIN session_refs' /\ session_refs'[i] = session_refs[i]

\* every search recorded in a session object of an id is in the history of
\* the session the dict holds for that id
RecordedSearchesAreInTheDict ==
    \A o \in 1..Len(heap) : \A k \in 1..Len(heap[o].search_history) :
        /\ heap[o].session_id \in DOMAIN session_refs
        /\ \E j \in 1..Len(heap[session_refs[heap[o].session_id]].search_history) :
              heap[session_refs[heap[o].session_id]].search_history[j]
                  = heap[o].search_history[k]

\* C16: a ConversationSession is created at most once per session id: a
\* session stored for an id is never replaced or removed, and every search
\* recorded for the id is in the history of the session the dict holds,
\* under every interleaving of concurrent requests.
C16_SessionCreatedOncePerId ==
    [][StoredSessionsStay]_vars /\ []RecordedSearchesAreInTheDict

\* the request thread that took the step (its local variables changed)
Stepper == CHOOSE t \in Threads : workers'[t] # workers[t]

\* the id of the request the stepping thread handles
StepperId ==
    IF workers[Stepper].pc = "idle" THEN workers'[Stepper].session_id
    ELSE workers[Stepper].session_id

\* the sessions of the ids other than i are as they were: their dict entries
\* and their objects
OtherSessionsKept(i) ==
    /\ \A b \in SessionIds \ {i} :
          /\ b \in DOMAIN session_refs' <=> b \in DOMAIN session_refs
          /\ b \in DOMAIN session_refs => session_refs'[b] = session_refs[b]
    /\ \A o \in 1..Len(heap) : heap[o].session_id # i => heap'[o] = heap[o]
    /\ \A o \in (Len(heap) + 1)..Len(heap') : heap'[o].session_id = i

\* a thread with a request in hand can take its next step whatever the
\* other threads do
NeverWaits == \A t \in Threads : workers[t].pc # "idle" => ENABLED Step(t)

\* C17: a step of a request for session id A reads and writes only the dict
\* entry and the session objects of A, leaves the entries and the
\* search_history, last_query and last_results of every other id as they
\* were, and is never kept waiting, under every interleaving.
C17_RequestsOfOtherIdsDoNotInterfere ==
    [][/\ touched' \subseteq {StepperId}
       /\ OtherSessionsKept(StepperId)
       /\ NeverWaits']_vars

\* C17 happens: a request for s1 is in the middle of add_search while the
\* session of s2 holds a search, so its steps run beside the state of s2
C17_Witness ==
    /\ \E t \in Threads : workers[t].pc = "add_results" /\ workers[t].session_id = "s1"
    /\ "s2" \in DOMAIN session_refs
    /\ Len(heap[session_refs["s2"]].search_history) = 1
    /\ \E t \in Threads : workers[t].pc \in {"add_query", "add_history"}
                          /\ workers[t].session_id = "s2"

(***************************************************************************)
(* Properties of the comparators                                           *)
(***************************************************************************)

\* how often a document occurs in a list
Occurrences(list, d) == Cardinality({i \in 1..Len(list) : list[i] = d})

SessionBefore(sessions, session_id) ==
    IF session_id \in DOMAIN sessions THEN sessions[session_id] ELSE NewSession

\* a request with the text "gracias" arrives in a session that holds one
\* search, which returned results
ThanksAfterSearch ==
    /\ chat_request'.method = "POST"
    /\ chat_request'.query = "gracias"
    /\ chat_request'.session_id \in DOMAIN conversation_sessions
    /\ Len(conversation_sessions[chat_request'.session_id].search_history) = 1
    /\ conversation_sessions[chat_request'.session_id].search_history[1].results # <<>>

\* the request leaves the search_history of its session as it was
HistoryKept ==
    conversation_sessions'[chat_request'.session_id].search_history
        = SessionBefore(conversation_sessions, chat_request'.session_id).search_history

\* C4 as stated: in a session whose first request was a search that returned
\* results, a next request "gracias" is answered by the reply of the
\* `satisfied` branch of handle_follow_up_message and search_history is left
\* unchanged.
C4_ThanksTakesSatisfiedBranch ==
    [][ThanksAfterSearch =>
            /\ chat_response'.reply = SatisfiedReply
            /\ HistoryKept]_vars

\* C4 amended: in a session whose first request was a search that returned
\* results, a next request "gracias" is classified as gratitude before the
\* follow-up logic runs: it is answered with status 200 by one of the canned
\* gratitude replies, with conversation_type "gratitude" and no documents,
\* the reply of the `satisfied` branch is not given, no search function is
\* called, and search_history is left unchanged.
C4_ThanksIsAnsweredAsGratitude ==
    [][ThanksAfterSearch =>
            /\ chat_response'.status = 200
            /\ chat_response'.conversation_type = "gratitude"
            /\ chat_response'.reply \in
                  {"¡De nada! ¿Algo más?", "¡Con gusto! ¿Otra búsqueda?", "¡Me alegra ayudar!"}
            /\ chat_response'.reply # SatisfiedReply
            /\ chat_response'.documents = <<>>
            /\ chat_invoked' = <<>>
            /\ HistoryKept]_vars

\* C4 witness: "gracias" has just been answered in a session that holds one
\* search with results.
C4_Witness ==
    /\ chat_request.method = "POST"
    /\ chat_request.query = "gracias"
    /\ chat_response.status = 200
    /\ chat_request.session_id \in DOMAIN conversation_sessions
    /\ Len(conversation_sessions[chat_request.session_id].search_history) = 1
    /\ conversation_sessions[chat_request.session_id].search_history[1].results # <<>>

\* a request arrives whose text detect_conversation_type classifies as
\* greeting, farewell, gratitude, help or smalltalk
CasualRequest ==
    /\ chat_request'.method = "POST"
    /\ chat_request'.query # NoneQuery
    /\ Strip(chat_request'.query) # ""
    /\ ConversationTypeOf(Strip(chat_request'.query))
          \in {"greeting", "farewell", "gratitude", "help", "smalltalk"}

\* C5: whenever detect_conversation_type classifies the message as greeting,
\* farewell, gratitude, help or smalltalk, the request is answered with a
\* canned reply of that type and an empty document list, no search function
\* and no search strategy is called, and search_history, last_query and
\* last_results of the session are what they were (those of a new session
\* if the request created it), in a fresh session and in a follow-up one.
C5_CasualMessagesShortCircuit ==
    [][CasualRequest =>
            /\ chat_response'.status = 200
            /\ chat_response'.conversation_type
                  = ConversationTypeOf(Strip(chat_request'.query))
            /\ chat_response'.reply
                  \in CannedReplies(ConversationTypeOf(Strip(chat_request'.query)))
            /\ chat_response'.documents = <<>>
            /\ chat_invoked' = <<>>
            /\ call_log' = call_log /\ searched' = searched
            /\ conversation_sessions'[chat_request'.session_id]
                  = SessionBefore(conversation_sessions, chat_request'.session_id)]_vars

\* C5 witness: a greeting has just been answered in a follow-up session (one
\* that holds a search), after which the session still holds that search.
C5_Witness ==
    /\ chat_request.method = "POST"
    /\ chat_request.query = " Hola "
    /\ chat_response.conversation_type = "greeting"
    /\ chat_response.documents = <<>>
    /\ chat_invoked = <<>>
    /\ chat_request.session_id \in DOMAIN conversation_sessions
    /\ Len(conversation_sessions[chat_request.session_id].search_history) >= 1

\* the search_history of session s in a session map (empty if s is unknown)
HistoryOf(sessions, s) == SessionBefore(sessions, s).search_history

\* the query the request searches if it searches: its stripped text in a
\* fresh session, the refined query of handle_follow_up_message in a
\* follow-up session
SearchedQuery ==
    IF is_follow_up(SessionBefore(conversation_sessions, chat_request'.session_id))
    THEN FollowUpOf(Strip(chat_request'.query)).new_query
    ELSE Strip(chat_request'.query)

\* the request ran a document search
RanSearch == chat_invoked' # <<>> /\ chat_invoked'[1] = "search_documents"

\* the history of session s after the request is the one before it plus the
\* entry of the search of the request
GrewByTheSearch(s) ==
    /\ Len(HistoryOf(conversation_sessions', s))
          = Len(HistoryOf(conversation_sessions, s)) + 1
    /\ SubSeq(HistoryOf(conversation_sessions', s), 1,
              Len(HistoryOf(conversation_sessions, s)))
          = HistoryOf(conversation_sessions, s)
    /\ Bind(HistoryOf(conversation_sessions', s)[Len(HistoryOf(conversation_sessions', s))],
            LAMBDA entry :
               /\ entry.query = SearchedQuery
               /\ Len(entry.results) = Len(chat_response'.documents)
               /\ \A k \in 1..Len(entry.results) :
                     entry.results[k].href = chat_response'.documents[k].doc.href)

\* C13: in every chat request the search_history of the session grows by
\* exactly one entry if and only if the request ran a document search; the
\* entry holds the query that was searched (the refined one in a follow-up)
\* and the hrefs of the returned documents; every other request, the
\* `satisfied` and `unsatisfied` follow-up branches among them, appends
\* nothing, and no other session's history changes.
C13_HistoryGrowsExactlyWithSearches ==
    [][\A s \in SessionIds :
          IF RanSearch /\ s = chat_request'.session_id
          THEN GrewByTheSearch(s)
          ELSE HistoryOf(conversation_sessions', s) = HistoryOf(conversation_sessions, s)]_vars

\* C13 happens: a follow-up request has been searched with its refined query,
\* which is the second entry of the history, after a fresh-session search
C13_Witness ==
    /\ chat_request.query = "hola, busco cartas de 1980"
    /\ chat_invoked # <<>>
    /\ chat_request.session_id \in DOMAIN conversation_sessions
    /\ Len(conversation_sessions[chat_request.session_id].search_history) = 2
    /\ conversation_sessions[chat_request.session_id].search_history[2].query = "1980 cartas"

\* C13 happens for the branches: "no me sirve" has been answered by the
\* `unsatisfied` branch in a session that keeps its one search
C13_WitnessBranch ==
    /\ chat_request.query = "no me sirve"
    /\ chat_response.conversation_type = "follow_up_branch"
    /\ chat_response.reply = UnsatisfiedReply
    /\ Len(conversation_sessions[chat_request.session_id].search_history) = 1

(***************************************************************************)
(* Properties of the normaliser                                            *)
(***************************************************************************)

\* C2: normalize_query is idempotent: normalize_query(normalize_query(x))
\* equals normalize_query(x) for every input string x.
C2_NormalizeQueryIdempotent ==
    (norm_fn = "normalize_query" /\ norm_pc = "twice") => norm_twice = norm_once

(***************************************************************************)
(* Properties of single functions                                          *)
(***************************************************************************)

NoDuplicates(list) ==
    \A i, j \in 1..Len(list) : list[i] = list[j] => i = j

\* C11: for every query and every synonym table, expand(query) is not empty,
\* its first element is the query itself, in its original case, and no string
\* occurs in it twice.
C11_ExpandKeepsQueryFirstWithoutDuplicates ==
    text_fn = "expand" =>
        /\ text_ret # <<>>
        /\ text_ret[1] = text_args[1]
        /\ NoDuplicates(text_ret)

\* C11 happens: the query "Fotos" has upper case, and with the default table
\* both "fotos" and "foto" turn it into "fotografías" and "retratos", which
\* are listed once
C11_Witness ==
    /\ text_fn = "expand"
    /\ text_args = <<"Fotos", <<>> >>
    /\ text_ret = <<"Fotos", "fotografías", "imágenes", "retratos", "visuales", "imagens">>

\* the 4-digit tokens of s that are years from 1900 to 2099: four digits that
\* start with 19 or 20 and have no letter, digit or underscore next to them
YearTokens(s) ==
    {StrToInt(SubSeq(s, i, i + 3), 0) :
        i \in {j \in 1..(Len(s) - 3) :
                  /\ SubSeq(s, j, j + 1) \in {"19", "20"}
                  /\ \A d \in 2..3 : Contains(Digits, CharAt(s, j + d))
                  /\ ~IsWordAt(s, j - 1)
                  /\ ~IsWordAt(s, j + 4)}}

Earliest(years) == CHOOSE y \in years : \A x \in years : y <= x

\* C12: for every message classified as search that contains a year from 1900
\* to 2099, handle_follow_up_message answers should_search = True with no
\* branch reply and a refined query that contains the earliest of the years,
\* whatever satisfied or unsatisfied pattern the message also matches.
C12_YearMessageIsSearchedWithEarliestYear ==
    (/\ text_fn = "handle_follow_up_message"
     /\ text_ret.conversation_type = "search"
     /\ YearTokens(text_args[1]) # {})
    => /\ text_ret.follow_up.should_search
       /\ text_ret.follow_up.response = NoReply
       /\ Contains(text_ret.follow_up.new_query,
                   IntToStr(Earliest(YearTokens(text_args[1]))))

\* C12 happens: a message with two years that also matches the unsatisfied
\* patterns is searched with the earlier year
C12_Witness ==
    /\ text_fn = "handle_follow_up_message"
    /\ text_args = <<"espera, 1973 no, 1970">>
    /\ AnySearch(unsatisfied_patterns, text_args[1])
    /\ YearTokens(text_args[1]) = {1970, 1973}
    /\ text_ret.conversation_type = "search"
    /\ text_ret.follow_up =
          [should_search |-> TRUE, new_query |-> "1970", response |-> NoReply]

\* C12 happens for the message of the claim
C12_WitnessNoBusco ==
    /\ text_fn = "handle_follow_up_message"
    /\ text_args = <<"no, busco algo de 1980">>
    /\ text_ret.follow_up =
          [should_search |-> TRUE, new_query |-> "1980", response |-> NoReply]

\* C14: SemanticSearchStrategy.search never raises; it returns the empty list
\* when the embedder is absent, when the embedding table is absent or empty,
\* when the embedder returns null and when the embedder raises; and with the
\* embedder or the table absent the embedder is not called.
C14_SemanticSearchDegradesToEmpty ==
    text_fn = "SemanticSearchStrategy.search" =>
        /\ ~text_ret.result.raised
        /\ (\/ text_args.embedder = "None"
            \/ text_args.embeddings \in {"None", "empty"}
            \/ text_ret.embedder_outcome \in {"null", "raise"})
           => text_ret.result.docs = <<>>
        /\ (text_args.embedder = "None" \/ text_args.embeddings \in {"None", "empty"})
           => text_ret.embedder_calls = <<>>

\* C14 happens: the embedder was called for a corpus of two documents, it
\* raised, and the search returned the empty list
C14_Witness ==
    /\ text_fn = "SemanticSearchStrategy.search"
    /\ text_args.embedder = "callable" /\ text_args.embeddings = "filled"
    /\ Len(text_args.documents) = 2 /\ text_args.top_k = 2
    /\ text_ret.embedder_calls = <<text_args.query>>
    /\ text_ret.embedder_outcome = "raise"
    /\ text_ret.result = Returned(<<>>)

\* C14 happens for a missing table: the embedder is set, the table is empty,
\* the embedder was not called
C14_WitnessEmptyTable ==
    /\ text_fn = "SemanticSearchStrategy.search"
    /\ text_args.embedder = "callable" /\ text_args.embeddings = "empty"
    /\ Len(text_args.documents) = 2
    /\ text_ret.embedder_calls = <<>>
    /\ text_ret.result = Returned(<<>>)

Punctuation == {"¿", "?", "¡", "!", ".", ",", ";", ":"}

RECURSIVE Unpunctuated(_)
Unpunctuated(s) ==
    IF s = "" THEN ""
    ELSE (IF Head(s) \in Punctuation THEN "" ELSE Head(s)) \o Unpunctuated(Tail(s))

\* the pattern groups in the order greeting, farewell, gratitude, help,
\* smalltalk
PatternGroups ==
    << <<"greeting", greetings>>, <<"farewell", farewells>>, <<"gratitude", gratitude>>,
       <<"help", help_patterns>>, <<"smalltalk", smalltalk>> >>

\* the groups that have a pattern matching the text
MatchingGroups(text) ==
    {g \in 1..Len(PatternGroups) : AnySearch(PatternGroups[g][2], text)}

\* at most 2 words, fewer than 15 characters, and one of the words is in the
\* casual allowlist
ShortAndCasual(text) ==
    /\ Len(Split(text)) <= 2
    /\ Len(text) < 15
    /\ SeqToSet(Split(text))
          \cap {"ok", "vale", "ya", "si", "sí", "no", "bien", "mal", "bueno"} # {}

\* the category the claim gives the punctuation-stripped text
ClaimedType(text) ==
    Bind(MatchingGroups(text), LAMBDA matching :
        IF matching # {}
        THEN PatternGroups[CHOOSE g \in matching : \A h \in matching : g <= h][1]
        ELSE IF ShortAndCasual(text) THEN "smalltalk"
        ELSE "search")

\* C18: detect_conversation_type returns the category of the first pattern
\* group, in the order greeting, farewell, gratitude, help, smalltalk, that
\* matches the lower-case text without punctuation; if no group matches,
\* smalltalk for a text of at most 2 words and fewer than 15 characters with
\* a casual word, and search otherwise.
C18_FirstMatchingGroupDecides ==
    text_fn = "detect_conversation_type" =>
        text_ret = ClaimedType(Unpunctuated(Strip(Lower(text_args[1]))))

\* C18 happens: "help bye" matches the farewell and the help group and is a
\* farewell
C18_Witness ==
    /\ text_fn = "detect_conversation_type"
    /\ text_args = <<"help bye">>
    /\ MatchingGroups("help bye") = {2, 4}
    /\ text_ret = "farewell"

\* C18 happens for the allowlist: "no 1980" matches no group and is short
C18_WitnessCasual ==
    /\ text_fn = "detect_conversation_type"
    /\ text_args = <<"no 1980">>
    /\ MatchingGroups("no 1980") = {}
    /\ text_ret = "smalltalk"

\* a pattern of the list matches the lower-case, stripped message
Matches(patterns, message) == AnySearch(patterns, Strip(Lower(message)))

\* C19: IntentionDetector.detect returns unsatisfied whenever an unsatisfied
\* pattern matches, whether or not a satisfied pattern matches too; else
\* satisfied whenever a satisfied pattern matches; else refinement when the
\* entity extractor reports has_new_info; else unsatisfied; and no other
\* value.
C19_UnsatisfiedThenSatisfiedThenRefinement ==
    text_fn = "IntentionDetector.detect" =>
        /\ text_ret \in {"unsatisfied", "satisfied", "refinement"}
        /\ Matches(unsatisfied_patterns, text_args[1]) => text_ret = "unsatisfied"
        /\ (~Matches(unsatisfied_patterns, text_args[1])
            /\ Matches(satisfied_patterns, text_args[1])) => text_ret = "satisfied"
        /\ (~Matches(unsatisfied_patterns, text_args[1])
            /\ ~Matches(satisfied_patterns, text_args[1]))
           => text_ret = IF EntityExtractorImpl_extract(text_args[1]).has_new_info
                         THEN "refinement" ELSE "unsatisfied"

\* C19 happens: "no, gracias" matches a pattern of both lists and is
\* unsatisfied
C19_Witness ==
    /\ text_fn = "IntentionDetector.detect"
    /\ text_args = <<"no, gracias">>
    /\ Matches(unsatisfied_patterns, "no, gracias")
    /\ Matches(satisfied_patterns, "no, gracias")
    /\ text_ret = "unsatisfied"

\* C19 happens for the other answers: a year alone is a refinement
C19_WitnessRefinement ==
    /\ text_fn = "IntentionDetector.detect"
    /\ text_args = <<"1973">>
    /\ text_ret = "refinement"

\* the explicit range "entre X y Y" of a message, as <<X, Y>>; <<>> if the
\* message has none
ExplicitRange(message) ==
    Bind(Lower(message), LAMBDA s :
    Bind(FirstMatch("entre\\s+(\\d{4})\\s+y\\s+(\\d{4})", s), LAMBDA m :
        IF m = NoMatch THEN <<>>
        ELSE <<StrToInt(Group1(s, m), 0), StrToInt(Slice(s, m.end - 3, m.end), 0)>>))

\* C20: when the message contains an explicit range "entre X y Y", extract
\* returns date_range = (X, Y) and years = X..Y, whatever historical period
\* or decade the message also names.
C20_ExplicitRangeIsKept ==
    (text_fn = "DateRangeExtractor.extract" /\ ExplicitRange(text_args[1]) # <<>>)
    => /\ text_ret.date_range = ExplicitRange(text_args[1])
       /\ text_ret.years
             = YearRange(ExplicitRange(text_args[1])[1], ExplicitRange(text_args[1])[2])

\* The stages of a search_documents call, each computed on its own (a stage
\* that raises has no results).
CascadeQuery == text_args[1]
CascadeHasIndex == text_args[2]
CascadeDocs == text_args[4]
StagesOf(a) ==
    [exact |-> IF ExactTitleRaises(a[4]) THEN <<>>
               ELSE search_exact_title(a[1], ChatTopK, a[4]),
     tfidf |-> search_with_tfidf(a[2], a[3], ChatTopK, a[4]),
     keywords |-> IF KeywordsRaise(a[4]) THEN <<>>
                  ELSE search_by_keywords(normalize_query(a[1]), ChatTopK, a[4])]
CascadeStages == {<<a, StagesOf(a)>> : a \in CascadeArgs}
ExactStage == Lookup(CascadeStages, text_args).exact
TfidfStage == Lookup(CascadeStages, text_args).tfidf
KeywordStage == Lookup(CascadeStages, text_args).keywords

\* The stage whose results the cascade returns, when no stage it runs
\* raises: the first of exact title, TF-IDF (index loaded) and keywords
\* that found something, the keywords when none did.
ReturnedStage ==
    IF ExactStage # <<>> THEN "search_exact_title"
    ELSE IF CascadeHasIndex /\ TfidfStage # <<>> THEN "search_with_tfidf"
    ELSE "search_by_keywords"

\* A stage that the cascade runs raises into search_documents.
StageRaises ==
    \/ ExactTitleRaises(CascadeDocs)
    \/ ReturnedStage = "search_by_keywords" /\ KeywordsRaise(CascadeDocs)

C28_WitnessExact ==
    /\ text_fn = "search_documents"
    /\ ~StageRaises
    /\ ReturnedStage = "search_exact_title"
    /\ CascadeHasIndex /\ TfidfStage # <<>>

C28_WitnessKeywords ==
    /\ text_fn = "search_documents"
    /\ ~StageRaises
    /\ ReturnedStage = "search_by_keywords"
    /\ text_ret.results # <<>>

C28_WitnessRaises ==
    /\ text_fn = "search_documents"
    /\ StageRaises
    /\ text_ret.caught
    /\ text_ret.results = <<>>

\* What the intention detector says of the cleaned message of each checked
\* follow-up call.
IntentOf(cleaned) ==
    [has_search |-> has_explicit_search(cleaned), intention |-> detect(cleaned),
     indicated |-> AnySearch(search_indicators, Strip(Lower(cleaned)))]
FollowUpIntents == {<<q, IntentOf(remove_greetings(q))>> : q \in FollowUpMessages}
FollowUpIntent == Lookup(FollowUpIntents, text_args[1])

\* C29: when has_explicit_search is False for the cleaned message,
\* handle_follow_up_message returns (False, None, reply) with the closing
\* reply of `satisfied` or the clarification prompt of `unsatisfied`, the
\* intent is never `refinement`, and the follow-up searches exactly when
\* has_explicit_search is True.
C29_FollowUpSearchesIffExplicitSearch ==
    text_fn = "handle_follow_up_message" =>
        /\ text_ret.follow_up.should_search = FollowUpIntent.has_search
        /\ ~FollowUpIntent.has_search =>
              /\ FollowUpIntent.intention \in {"satisfied", "unsatisfied"}
              /\ text_ret.follow_up.new_query = NoneQuery
              /\ text_ret.follow_up.response =
                    IF FollowUpIntent.intention = "satisfied"
                    THEN SatisfiedReply ELSE UnsatisfiedReply

C29_Witness ==
    /\ text_fn = "handle_follow_up_message"
    /\ ~FollowUpIntent.has_search
    /\ FollowUpIntent.intention = "unsatisfied"
    /\ text_ret.follow_up.response = UnsatisfiedReply

C29_WitnessSatisfied ==
    /\ text_fn = "handle_follow_up_message"
    /\ ~FollowUpIntent.has_search
    /\ text_ret.follow_up.response = SatisfiedReply

C29_WitnessRefinement ==
    /\ text_fn = "handle_follow_up_message"
    /\ FollowUpIntent.intention = "refinement"
    /\ ~FollowUpIntent.indicated
    /\ text_ret.follow_up.should_search

\* The years of an extract call are the ones made from the returned range.
YearsMadeFromRange ==
    text_ret.years = YearRange(text_ret.date_range[1], text_ret.date_range[2])

\* C30: when DateRangeExtractor.extract returns a date_range (start, end),
\* start <= end and the years made from that range lie between start and
\* end; has_new_info is True exactly when years is not empty or date_range
\* is not null.
C30_DateRangeIsOrdered ==
    text_fn = "DateRangeExtractor.extract" =>
        /\ text_ret.date_range # NoRange =>
              /\ text_ret.date_range[1] <= text_ret.date_range[2]
              /\ YearsMadeFromRange =>
                    \A k \in 1..Len(text_ret.years) :
                        /\ text_ret.date_range[1] <= text_ret.years[k]
                        /\ text_ret.years[k] <= text_ret.date_range[2]
        /\ text_ret.has_new_info
              <=> (text_ret.years # <<>> \/ text_ret.date_range # NoRange)

\* The other parts of C30 hold: the years made from the returned range lie
\* in it, and has_new_info tells whether years or date_range were found.
YearsWithinRangeAndNewInfo ==
    text_fn = "DateRangeExtractor.extract" =>
        /\ (text_ret.date_range # NoRange /\ YearsMadeFromRange) =>
              \A k \in 1..Len(text_ret.years) :
                  /\ text_ret.date_range[1] <= text_ret.years[k]
                  /\ text_ret.years[k] <= text_ret.date_range[2]
        /\ text_ret.has_new_info
              <=> (text_ret.years # <<>> \/ text_ret.date_range # NoRange)

(***************************************************************************)
(* Properties of the LLM proxies                                           *)
(***************************************************************************)

\* The last max_failures API calls raised, with no success and no reset
\* since.
Tripped == failed_in_row >= max_failures

\* a step that is a call of embed or generate
CallsTheProxy ==
    llm_call'.number # llm_call.number /\ llm_call'.fn \in {"embed", "generate"}

C24_WitnessReset ==
    /\ llm_call.number > max_failures + 1 /\ llm_call.invoked /\ failed_in_row = 1

\* A proxy without API key answered None.
C24_WitnessDisabled ==
    ~gemini.enabled /\ llm_call.fn = "generate" /\ llm_call.result = NoResult

\* C25: in every reachable state of a GeminiClientProxy, 0 <= _failure_count
\* <= _max_failures (5), under any sequence and any interleaving of
\* concurrent embed/generate calls on the shared proxy.
C25_FailureCountWithinBounds ==
    0 <= gemini.failure_count /\ gemini.failure_count <= max_failures

\* A call that had passed the check before the circuit opened returns after
\* it: the count is back at 0 although reset_circuit_breaker was not called.
CircuitNeverClosesByItself ==
    [][(CircuitOpen(gemini) /\ ~CircuitOpen(gemini')) => FALSE]_vars

\* a step that is an embed call on the caching proxy, for the given triple
EmbedsFor(args) ==
    /\ cache_call'.number # cache_call.number
    /\ cache_call'.fn = "embed" /\ cache_call'.args = args

\* a call for the triple obtained a non-null result that was stored less
\* than the TTL ago (and the cache was not cleared since)
FreshFor(args) ==
    /\ args \in DOMAIN stored_results
    /\ clock - stored_results[args].timestamp < cache_ttl_seconds

\* C26: after an embed call for (text, model, task_type) obtained a non-null
\* result, every later call with the same triple made less than the TTL
\* after the result was stored returns the stored result without calling the
\* wrapped proxy; a null result is never stored (the next call for the
\* triple reaches the wrapped proxy again); a result is returned from the
\* cache only if its entry is younger than the TTL; after clear_cache the
\* next call reaches the wrapped proxy.
C26_CacheServesFreshResultsOnly ==
    /\ [][\A args \in EmbedArgs :
            (EmbedsFor(args) /\ FreshFor(args)) =>
                /\ cache_call'.result = stored_results[args].result
                /\ ~cache_call'.reached]_vars
    /\ [](\A k \in DOMAIN embedding_cache : embedding_cache[k].result # NoResult)
    /\ [][\A args \in EmbedArgs :
            (/\ EmbedsFor(args)
             /\ cache_call.fn = "embed" /\ cache_call.args = args
             /\ cache_call.result = NoResult)
            => cache_call'.reached]_vars
    /\ [][\A args \in EmbedArgs :
            (EmbedsFor(args) /\ ~cache_call'.reached) =>
                /\ hash_key(args) \in DOMAIN embedding_cache
                /\ cache_call'.result = embedding_cache[hash_key(args)].result
                /\ clock - embedding_cache[hash_key(args)].timestamp
                      < cache_ttl_seconds]_vars
    /\ [][\A args \in EmbedArgs :
            (EmbedsFor(args) /\ cache_call.fn = "clear_cache")
            => cache_call'.reached]_vars

\* A call was answered from the cache with the result stored for its triple.
C26_Witness ==
    /\ cache_call.fn = "embed" /\ ~cache_call.reached
    /\ cache_call.args \in DOMAIN stored_results
    /\ cache_call.result = stored_results[cache_call.args].result
    /\ cache_call.result = Value("dict", "v2")
    /\ clock > stored_results[cache_call.args].timestamp

\* An entry that had expired was replaced by a new result of the wrapped
\* proxy.
C26_WitnessExpired ==
    /\ cache_call.fn = "embed" /\ cache_call.reached
    /\ hash_key(cache_call.args) \in DOMAIN embedding_cache
    /\ embedding_cache[hash_key(cache_call.args)].timestamp >= cache_ttl_seconds
    /\ embedding_cache[hash_key(cache_call.args)].result = cache_call.result

(***************************************************************************)
(* Properties of the event bus                                             *)
(***************************************************************************)

\* C27: EventBus.publish(event, payload) calls every handler subscribed to
\* that event exactly once per subscription, in subscription order, with the
\* payload, and calls no handler of another event; a handler that raises
\* neither propagates the exception to the publisher nor prevents the
\* handlers subscribed after it from being called.
C27_PublishCallsEverySubscriberInOrder ==
    published.fn = "publish" =>
        /\ ~published.raised
        /\ Len(delivered) = Len(Subscribed(bus_subs, published.event))
        /\ \A i \in 1..Len(delivered) :
              /\ delivered[i].handler = Subscribed(bus_subs, published.event)[i]
              /\ delivered[i].payload = published.payload

\* The first of two handlers of the event raised and the second was called;
\* the handler of the other event was not.
C27_Witness ==
    /\ published.fn = "publish" /\ published.event = "search.done"
    /\ Len(delivered) = 2
    /\ delivered[1].outcome = "raises" /\ delivered[2].outcome = "returns"
    /\ delivered[1].handler # delivered[2].handler
    /\ Subscribed(bus_subs, "chat.received") # <<>>
    /\ \A i \in 1..2 : delivered[i].handler # Subscribed(bus_subs, "chat.received")[1]

\* A handler subscribed twice to the event was called twice.
C27_WitnessTwice ==
    /\ published.fn = "publish" /\ Len(delivered) = 2
    /\ delivered[1].handler = delivered[2].handler

====
